---- MODULE Spec2Model ----
(***************************************************************************)
(* A model of the decode path of the CAN log decoder:                      *)
(*   - the bit-level signal extractor and the message decoder              *)
(*     (can-log-decoder/src/message_decoder.rs),                           *)
(*   - the container PDU decoder (can-log-decoder/src/container_decoder.rs)*)
(*   - the signal database (can-log-decoder/src/signals/database.rs),      *)
(*   - the composing iterator (can-log-decoder/src/decoder.rs),            *)
(*   - the BLF object and frame iterators (vendor/ablf/src/lib.rs,         *)
(*     can-log-decoder/src/formats/blf.rs).                                *)
(*                                                                         *)
(* A u64 is modelled as the set of its set bit positions (a subset of      *)
(* 0..63), so that shifts, masks and the cast to i64 keep their 64-bit     *)
(* meaning; an i64 that leaves the extractor is an Int.                    *)
(***************************************************************************)
EXTENDS Integers, Sequences, FiniteSets, TLC

VARIABLES
    arg,             \* the input of the function under test (pure-function specifications)
    res,             \* its result, Unset before it has been applied
    signal_db,       \* DecodingIterator.signal_db
    frame,           \* the frame last pulled from frame_iter, NoFrame before the first pull
    pending_events,  \* DecodingIterator.pending_events
    frame_events,    \* the event vector the decoder built for `frame`
    returned,        \* the items next() has returned since `frame` was pulled
    pulled,          \* how many frames frame_iter has produced
    done,            \* frame_iter is exhausted and next() has returned None
    objects,         \* BlfFrameIterator.objects, the ablf ObjectIterator over the file `arg`
    yielded          \* what the pulls on the BLF iterator have returned, in order

vars == <<arg, res, signal_db, frame, pending_events, frame_events, returned, pulled, done,
          objects, yielded>>

----------------------------------------------------------------------------
(* Bounds of the model *)

\* payload bytes are drawn from ByteVals; payloads have at most MaxDataLen bytes
MaxDataLen == 3
\* signal start bits 0..MaxStartBit
MaxStartBit == 15
\* signal lengths 1..MaxSigLen
MaxSigLen == 16
\* sign_extend is applied to every raw value of every length 1..MaxSignLen
MaxSignLen == 6
\* a DBC message has at most MaxSignals signals
MaxSignals == 3
\* a contained PDU has a declared LENGTH of 0..MaxPduSize bytes
MaxPduSize == 2
\* frame_iter produces at most MaxFrames items
MaxFrames == 2
\* payloads of Dynamic containers have at most MaxDynLen bytes
MaxDynLen == 8
\* payloads handed to decode_container have at most MaxContainerLen bytes
MaxContainerLen == 5

ByteVals == {0, 1, 171}

Unset == [unset |-> TRUE]
None == [some |-> FALSE]
Some(x) == [some |-> TRUE, val |-> x]

RECURSIVE SeqsOfLen(_, _)
SeqsOfLen(S, n) ==
    IF n = 0 THEN {<<>>}
    ELSE {Append(s, x) : s \in SeqsOfLen(S, n - 1), x \in S}

SeqsUpTo(S, n) == UNION {SeqsOfLen(S, k) : k \in 0..n}

----------------------------------------------------------------------------
(* 64-bit words *)

WordBits == 64
Word == 0..(WordBits - 1)

RECURSIVE Pow2(_)
Pow2(n) == IF n = 0 THEN 1 ELSE 2 * Pow2(n - 1)

\* bit k of a byte: (byte >> k) & 0x01
BitOf(byte, k) == (byte \div Pow2(k)) % 2

\* `b as u64` for a bit value b
BitAsU64(b) == IF b = 1 THEN {0} ELSE {}

\* v << n on u64 (n < 64)
Shl(v, n) == {j + n : j \in v} \cap Word

\* the number a u64 stands for (defined while it fits an Int of the checker)
RECURSIVE U64ToInt(_)
U64ToInt(v) ==
    IF v = {} THEN 0
    ELSE LET j == CHOOSE x \in v : TRUE IN Pow2(j) + U64ToInt(v \ {j})

\* `v as i64`: two's complement
I64OfU64(v) ==
    IF (WordBits - 1) \in v THEN -(1 + U64ToInt(Word \ v)) ELSE U64ToInt(v)

\* `n as u64` for an i64 n
U64OfI64(n) ==
    IF n >= 0 THEN {j \in 0..30 : (n \div Pow2(j)) % 2 = 1}
    ELSE Word \ {j \in 0..30 : ((-n - 1) \div Pow2(j)) % 2 = 1}

----------------------------------------------------------------------------
(* Signal extraction: message_decoder.rs *)

\* the loop of extract_little_endian from iteration i on
RECURSIVE LittleEndianLoop(_, _, _, _, _)
LittleEndianLoop(data, start_bit, length, i, result) ==
    IF i >= length THEN result
    ELSE LET bit_pos == start_bit + i
             byte_idx == bit_pos \div 8
             bit_in_byte == bit_pos % 8
         IN IF byte_idx < Len(data)
            THEN LittleEndianLoop(data, start_bit, length, i + 1,
                     result \cup Shl(BitAsU64(BitOf(data[byte_idx + 1], bit_in_byte)), i))
            ELSE LittleEndianLoop(data, start_bit, length, i + 1, result)

\* extract_little_endian reading each byte most significant bit first
RECURSIVE LittleEndianLoopMsbFirst(_, _, _, _, _)
LittleEndianLoopMsbFirst(data, start_bit, length, i, result) ==
    IF i >= length THEN result
    ELSE LET bit_pos == start_bit + i
             byte_idx == bit_pos \div 8
             bit_in_byte == 7 - (bit_pos % 8)
         IN IF byte_idx < Len(data)
            THEN LittleEndianLoopMsbFirst(data, start_bit, length, i + 1,
                     result \cup Shl(BitAsU64(BitOf(data[byte_idx + 1], bit_in_byte)), i))
            ELSE LittleEndianLoopMsbFirst(data, start_bit, length, i + 1, result)

extract_little_endian_msb_first(data, start_bit, length) ==
    LittleEndianLoopMsbFirst(data, start_bit, length, 0, {})

extract_little_endian(data, start_bit, length) ==
    LittleEndianLoop(data, start_bit, length, 0, {})

\* the loop of extract_big_endian from iteration i on
RECURSIVE BigEndianLoop(_, _, _, _, _)
BigEndianLoop(data, start_bit, length, i, result) ==
    IF i >= length THEN result
    ELSE LET bit_pos == start_bit + i
             byte_idx == bit_pos \div 8
             bit_in_byte == 7 - (bit_pos % 8)
         IN IF byte_idx < Len(data)
            THEN BigEndianLoop(data, start_bit, length, i + 1,
                     result \cup Shl(BitAsU64(BitOf(data[byte_idx + 1], bit_in_byte)),
                                     length - 1 - i))
            ELSE BigEndianLoop(data, start_bit, length, i + 1, result)

extract_big_endian(data, start_bit, length) ==
    BigEndianLoop(data, start_bit, length, 0, {})

\* sign_extend testing the bit above the sign bit
sign_extend_wrong_sign_bit(value, bit_length) ==
    IF bit_length >= WordBits THEN I64OfU64(value)
    ELSE LET sign_bit == Shl({0}, bit_length)
         IN IF (value \cap sign_bit) # {}
            THEN LET mask == Shl(Word, bit_length)
                 IN I64OfU64(value \cup mask)
            ELSE I64OfU64(value)

\* sign_extend(value: u64, bit_length) -> i64
sign_extend(value, bit_length) ==
    IF bit_length >= WordBits THEN I64OfU64(value)
    ELSE LET sign_bit == Shl({0}, bit_length - 1)
         IN IF (value \cap sign_bit) # {}
            THEN LET mask == Shl(Word, bit_length)
                 IN I64OfU64(value \cup mask)
            ELSE I64OfU64(value)

\* required_bytes rounded down instead of up
required_bytes_rounded_down(signal) == (signal.start_bit + signal.length) \div 8

\* ((start_bit + length) + 7) / 8
required_bytes(signal) == ((signal.start_bit + signal.length) + 7) \div 8

\* extract_signal_value(data, signal) -> Option<i64>
extract_signal_value(data, signal) ==
    IF required_bytes(signal) > Len(data) THEN None
    ELSE LET raw_value ==
                 IF signal.byte_order = "LittleEndian"
                 THEN extract_little_endian(data, signal.start_bit, signal.length)
                 ELSE extract_big_endian(data, signal.start_bit, signal.length)
         IN Some(IF signal.value_type = "Unsigned"
                 THEN I64OfU64(raw_value)
                 ELSE sign_extend(raw_value, signal.length))

----------------------------------------------------------------------------
(* Message decoding: message_decoder.rs *)

\* timestamp() keeping the whole seconds only
timestamp_whole_seconds(f) ==
    [secs |-> f.timestamp_ns \div 1000000000, nsecs |-> 0]

\* CanFrame::timestamp(): nanoseconds split into seconds and nanoseconds
timestamp(f) ==
    [secs |-> f.timestamp_ns \div 1000000000, nsecs |-> f.timestamp_ns % 1000000000]

\* the value tag of a decoded signal (factor and offset are whole numbers here;
\* a Boolean is written 1 or 0)
SignalValue(signal, raw_value) ==
    IF signal.factor = 1 /\ signal.offset = 0 /\ signal.length = 1
    THEN [tag |-> "Boolean", v |-> IF raw_value # 0 THEN 1 ELSE 0]
    ELSE IF signal.factor # 1 \/ signal.offset # 0
         THEN [tag |-> "Float", v |-> signal.offset + signal.factor * raw_value]
         ELSE [tag |-> "Integer", v |-> raw_value]

\* value_table.get(&raw_value)
value_description(signal, raw_value) ==
    IF signal.value_table.some /\ raw_value \in DOMAIN signal.value_table.val
    THEN Some(signal.value_table.val[raw_value])
    ELSE None

\* decode_signal(data, signal) -> Option<DecodedSignal>
decode_signal(data, signal) ==
    LET extracted == extract_signal_value(data, signal)
    IN IF ~extracted.some THEN None
       ELSE Some([name |-> signal.name,
                  value |-> SignalValue(signal, extracted.val),
                  value_description |-> value_description(signal, extracted.val),
                  raw_value |-> extracted.val])

\* signals.iter().find(|s| s.name == name): the index of the first match, 0 if none
RECURSIVE FindSignal(_, _, _)
FindSignal(signals, name, i) ==
    IF i > Len(signals) THEN 0
    ELSE IF signals[i].name = name THEN i
         ELSE FindSignal(signals, name, i + 1)

\* the multiplexer pre-pass of decode_message: Option<u64>
multiplexer_value(data, message_def) ==
    IF ~message_def.is_multiplexed \/ ~message_def.multiplexer_signal.some THEN None
    ELSE LET k == FindSignal(message_def.signals, message_def.multiplexer_signal.val, 1)
         IN IF k = 0 THEN None
            ELSE LET value == extract_signal_value(data, message_def.signals[k])
                 IN IF value.some THEN Some(U64OfI64(value.val)) ELSE None

\* multiplexer_values.contains(&current_mux_value)
MuxContains(multiplexer_values, current) ==
    \E k \in 1..Len(multiplexer_values) : U64OfI64(multiplexer_values[k]) = current

\* the gate letting gated signals through when no multiplexer value was extracted
MuxSkipsOnlyOnMismatch(signal, mux_value) ==
    /\ signal.multiplexer_info.some
    /\ mux_value.some
    /\ ~MuxContains(signal.multiplexer_info.val.multiplexer_values, mux_value.val)

\* whether the signal pass of decode_message skips the signal before extracting it
MuxSkips(signal, mux_value) ==
    /\ signal.multiplexer_info.some
    /\ \/ ~mux_value.some
       \/ ~MuxContains(signal.multiplexer_info.val.multiplexer_values, mux_value.val)

\* the signal pass of decode_message from signal i on
RECURSIVE SignalPass(_, _, _, _, _)
SignalPass(data, signals, mux_value, i, decoded_signals) ==
    IF i > Len(signals) THEN decoded_signals
    ELSE IF MuxSkips(signals[i], mux_value)
         THEN SignalPass(data, signals, mux_value, i + 1, decoded_signals)
         ELSE LET decoded == decode_signal(data, signals[i])
              IN SignalPass(data, signals, mux_value, i + 1,
                     IF decoded.some THEN Append(decoded_signals, decoded.val)
                     ELSE decoded_signals)

\* decode_message without the check for an empty signal list
decode_message_always_emits(f, message_def) ==
    LET mux_value == multiplexer_value(f.data, message_def)
        decoded_signals == SignalPass(f.data, message_def.signals, mux_value, 1, <<>>)
    IN Some([kind |-> "Message",
             timestamp |-> timestamp(f),
             channel |-> f.channel,
             can_id |-> f.can_id,
             message_name |-> Some(message_def.name),
             sender |-> message_def.sender,
             signals |-> decoded_signals,
             is_multiplexed |-> message_def.is_multiplexed,
             multiplexer_value |-> mux_value])

\* decode_message(frame, message_def) -> Option<DecodedEvent>
decode_message(f, message_def) ==
    LET mux_value == multiplexer_value(f.data, message_def)
        decoded_signals == SignalPass(f.data, message_def.signals, mux_value, 1, <<>>)
    IN IF decoded_signals = <<>> THEN None
       ELSE Some([kind |-> "Message",
                  timestamp |-> timestamp(f),
                  channel |-> f.channel,
                  can_id |-> f.can_id,
                  message_name |-> Some(message_def.name),
                  sender |-> message_def.sender,
                  signals |-> decoded_signals,
                  is_multiplexed |-> message_def.is_multiplexed,
                  multiplexer_value |-> mux_value])

\* decode_pdu_data(pdu_data, message_def, timestamp): the contained PDU's bytes
\* decoded as the message's payload, the event carrying the container frame's
\* timestamp
decode_pdu_data(pdu_data, message_def, ts) ==
    LET mux_value == multiplexer_value(pdu_data, message_def)
        decoded_signals == SignalPass(pdu_data, message_def.signals, mux_value, 1, <<>>)
    IN IF decoded_signals = <<>> THEN None
       ELSE Some([kind |-> "Message",
                  timestamp |-> ts,
                  channel |-> 0,
                  can_id |-> message_def.id,
                  message_name |-> Some(message_def.name),
                  sender |-> message_def.sender,
                  signals |-> decoded_signals,
                  is_multiplexed |-> message_def.is_multiplexed,
                  multiplexer_value |-> mux_value])

----------------------------------------------------------------------------
(* The signal database: signals/database.rs.  A HashMap is a function whose *)
(* domain is the set of its keys.                                           *)

\* SignalDatabase::new()
new_database ==
    [messages |-> <<>>, containers |-> <<>>, signal_lookup |-> <<>>,
     message_lookup |-> <<>>]

\* map.insert(k, v)
Insert(map, k, v) == [x \in (DOMAIN map) \cup {k} |-> IF x = k THEN v ELSE map[x]]

\* map.entry(k).or_insert_with(Vec::new).push(v)
PushEntry(map, k, v) ==
    Insert(map, k, IF k \in DOMAIN map THEN Append(map[k], v) ELSE <<v>>)

\* the signal_lookup loop of add_message from signal i on
RECURSIVE IndexSignals(_, _, _)
IndexSignals(lookup, message, i) ==
    IF i > Len(message.signals) THEN lookup
    ELSE IndexSignals(PushEntry(lookup, message.signals[i].name, <<message.id, i - 1>>),
                      message, i + 1)

\* SignalDatabase::add_message
add_message(db, message) ==
    LET can_id == message.id
        msg_idx == IF can_id \in DOMAIN db.messages THEN Len(db.messages[can_id]) ELSE 0
    IN [db EXCEPT
          !.signal_lookup = IndexSignals(db.signal_lookup, message, 1),
          !.message_lookup = Insert(db.message_lookup, message.name, <<can_id, msg_idx>>),
          !.messages = PushEntry(db.messages, can_id, message)]

\* SignalDatabase::add_container
add_container(db, container) ==
    [db EXCEPT !.containers = Insert(db.containers, container.id, container)]

\* SignalDatabase::get_messages
get_messages(db, can_id) ==
    IF can_id \in DOMAIN db.messages THEN Some(db.messages[can_id]) ELSE None

\* a get_message that answers with the definition added last
get_message_last(db, can_id) ==
    IF can_id \in DOMAIN db.messages /\ Len(db.messages[can_id]) > 0
    THEN Some(db.messages[can_id][Len(db.messages[can_id])])
    ELSE None

\* SignalDatabase::get_message: the first definition added for the id
get_message(db, can_id) ==
    IF can_id \in DOMAIN db.messages /\ Len(db.messages[can_id]) > 0
    THEN Some(db.messages[can_id][1])
    ELSE None

\* SignalDatabase::get_container
get_container(db, container_id) ==
    IF container_id \in DOMAIN db.containers THEN Some(db.containers[container_id])
    ELSE None

\* the filter_map of find_signal over the locations from entry i on
RECURSIVE FindLocations(_, _, _, _)
FindLocations(db, locations, i, found) ==
    IF i > Len(locations) THEN found
    ELSE LET can_id == locations[i][1]
             sig_idx == locations[i][2]
             msg == get_message(db, can_id)
         IN IF msg.some /\ sig_idx < Len(msg.val.signals)
            THEN FindLocations(db, locations, i + 1,
                               Append(found, <<can_id, msg.val.signals[sig_idx + 1]>>))
            ELSE FindLocations(db, locations, i + 1, found)

\* SignalDatabase::find_signal
find_signal(db, signal_name) ==
    IF signal_name \notin DOMAIN db.signal_lookup THEN <<>>
    ELSE FindLocations(db, db.signal_lookup[signal_name], 1, <<>>)

\* a get_message_by_name that takes the first definition of the CAN id
get_message_by_name_first(db, message_name) ==
    IF message_name \notin DOMAIN db.message_lookup THEN None
    ELSE get_message(db, db.message_lookup[message_name][1])

\* SignalDatabase::get_message_by_name
get_message_by_name(db, message_name) ==
    IF message_name \notin DOMAIN db.message_lookup THEN None
    ELSE LET can_id == db.message_lookup[message_name][1]
             msg_idx == db.message_lookup[message_name][2]
         IN IF can_id \in DOMAIN db.messages /\ msg_idx < Len(db.messages[can_id])
            THEN Some(db.messages[can_id][msg_idx + 1])
            ELSE None

----------------------------------------------------------------------------
(* Container layout from ARXML: signals/arxml.rs *)

\* generate_pdu_id: the low 16 bits of a hash of the name; the names of the
\* model hash to these ids
generate_pdu_id(name) ==
    CASE name = "PduA" -> 1
      [] name = "PduB" -> 2
      [] name = "PduC" -> 3
      [] OTHER -> 4

\* the accumulation loop of parse_contained_pdus over the referenced I-PDUs
\* (name, LENGTH), from reference i on
RECURSIVE ContainedPdusLoop(_, _, _, _, _)
ContainedPdusLoop(refs, container_length, i, current_position, contained_pdus) ==
    IF i > Len(refs) THEN contained_pdus
    ELSE LET pushed == Append(contained_pdus,
                           [pdu_id |-> generate_pdu_id(refs[i].name),
                            name |-> refs[i].name,
                            position |-> current_position,
                            size |-> refs[i].size])
             position == current_position + refs[i].size
         IN IF position > container_length THEN pushed
            ELSE ContainedPdusLoop(refs, container_length, i + 1, position, pushed)

\* parse_contained_pdus that never advances current_position
RECURSIVE ContainedPdusLoopNoAdvance(_, _, _, _)
ContainedPdusLoopNoAdvance(refs, container_length, i, contained_pdus) ==
    IF i > Len(refs) THEN contained_pdus
    ELSE ContainedPdusLoopNoAdvance(refs, container_length, i + 1,
             Append(contained_pdus,
                    [pdu_id |-> generate_pdu_id(refs[i].name), name |-> refs[i].name,
                     position |-> 0, size |-> refs[i].size]))

parse_contained_pdus_no_advance(refs, container_length) ==
    ContainedPdusLoopNoAdvance(refs, container_length, 1, <<>>)

parse_contained_pdus(refs, container_length) ==
    ContainedPdusLoop(refs, container_length, 1, 0, <<>>)

\* parse_container_i_pdu for a container whose CAN id is resolved: HEADER-TYPE
\* selects Static, Dynamic with 4-byte headers or Dynamic with 8-byte headers
parse_container_i_pdu(name, can_id, length, header_type, refs) ==
    LET container_type == IF header_type \in {"SHORT-HEADER", "LONG-HEADER"}
                          THEN "Dynamic" ELSE "Static"
        header_size == CASE header_type = "SHORT-HEADER" -> 4
                         [] header_type = "LONG-HEADER" -> 8
                         [] OTHER -> 0
        contained_pdus == parse_contained_pdus(refs, length)
    IN [id |-> can_id, name |-> name, container_type |-> container_type,
        layout |-> IF container_type = "Dynamic"
                   THEN [kind |-> "Dynamic", header_size |-> header_size,
                         pdus |-> contained_pdus]
                   ELSE [kind |-> "Static", pdus |-> contained_pdus],
        source |-> "system.arxml"]

----------------------------------------------------------------------------
(* Container decoding: container_decoder.rs *)

Ok(events) == [ok |-> TRUE, events |-> events]
Err(kind) == [ok |-> FALSE, err |-> kind]

\* frame.data[from..to]
Slice(data, from, to) == SubSeq(data, from + 1, to)

AllZero(bytes) == \A k \in 1..Len(bytes) : bytes[k] = 0

ContainerPdu(f, container_def, contained_pdus) ==
    [kind |-> "ContainerPdu",
     timestamp |-> timestamp(f),
     container_id |-> container_def.id,
     container_name |-> container_def.name,
     container_type |-> container_def.container_type,
     contained_pdus |-> contained_pdus]

\* decoded_events after "try to decode signals from this PDU"
PushDecoded(decoded_events, message_def, pdu_data, f) ==
    IF ~message_def.some THEN decoded_events
    ELSE LET decoded_message == decode_pdu_data(pdu_data, message_def.val, timestamp(f))
         IN IF decoded_message.some THEN Append(decoded_events, decoded_message.val)
            ELSE decoded_events

\* the bounds check of decode_static_container with >= for >
StaticOverflowsOffByOne(pdu_info, data) == pdu_info.position + pdu_info.size >= Len(data)

\* whether decode_static_container skips the sub-PDU: end_pos > frame.data.len()
StaticOverflows(pdu_info, data) == pdu_info.position + pdu_info.size > Len(data)

\* the loop of decode_static_container from sub-PDU i on
RECURSIVE StaticLoop(_, _, _, _, _, _)
StaticLoop(f, pdus, db, i, contained_pdus, decoded_events) ==
    IF i > Len(pdus) THEN <<contained_pdus, decoded_events>>
    ELSE LET pdu_info == pdus[i]
             end_pos == pdu_info.position + pdu_info.size
         IN IF StaticOverflows(pdu_info, f.data)
            THEN StaticLoop(f, pdus, db, i + 1, contained_pdus, decoded_events)
            ELSE LET pdu_data == Slice(f.data, pdu_info.position, end_pos)
                 IN StaticLoop(f, pdus, db, i + 1,
                        Append(contained_pdus,
                               [pdu_id |-> pdu_info.pdu_id, name |-> pdu_info.name,
                                data |-> pdu_data]),
                        PushDecoded(decoded_events,
                                    get_message_by_name(db, pdu_info.name), pdu_data, f))

decode_static_container(f, container_def, pdus, db) ==
    LET r == StaticLoop(f, pdus, db, 1, <<>>, <<>>)
    IN Ok(<<ContainerPdu(f, container_def, r[1])>> \o r[2])

\* the header fields read least significant byte first
RECURSIVE from_le_bytes(_)
from_le_bytes(bytes) ==
    IF bytes = <<>> THEN 0
    ELSE bytes[1] + 256 * from_le_bytes(Tail(bytes))

\* u16::from_be_bytes / u32::from_be_bytes
RECURSIVE from_be_bytes(_)
from_be_bytes(bytes) ==
    IF bytes = <<>> THEN 0
    ELSE 256 * from_be_bytes(SubSeq(bytes, 1, Len(bytes) - 1)) + bytes[Len(bytes)]

\* pdus.iter().find(|p| p.pdu_id == pdu_id), else "PDU_<id>"
RECURSIVE DynamicPduName(_, _, _)
DynamicPduName(pdus, pdu_id, i) ==
    IF i > Len(pdus) THEN "PDU_" \o ToString(pdu_id)
    ELSE IF pdus[i].pdu_id = pdu_id THEN pdus[i].name
         ELSE DynamicPduName(pdus, pdu_id, i + 1)

\* the while loop of decode_dynamic_container from `offset` on
RECURSIVE DynamicLoop(_, _, _, _, _, _, _)
DynamicLoop(f, header_size, pdus, db, offset, contained_pdus, decoded_events) ==
    IF ~(offset + header_size <= Len(f.data)) THEN Ok(<<contained_pdus, decoded_events>>)
    ELSE LET header_bytes == Slice(f.data, offset, offset + header_size)
         IN IF AllZero(header_bytes) THEN Ok(<<contained_pdus, decoded_events>>)
            ELSE IF header_size # 4 /\ header_size # 8 THEN Err("InvalidData")
            ELSE LET pdu_id == IF header_size = 4
                               THEN from_be_bytes(SubSeq(header_bytes, 1, 2))
                               ELSE from_be_bytes(SubSeq(header_bytes, 1, 4))
                     pdu_length == IF header_size = 4 THEN header_bytes[3]
                                   ELSE from_be_bytes(SubSeq(header_bytes, 5, 8))
                     data_at == offset + header_size
                 IN IF data_at + pdu_length > Len(f.data)
                    THEN Ok(<<contained_pdus, decoded_events>>)
                    ELSE LET pdu_data == Slice(f.data, data_at, data_at + pdu_length)
                             pdu_name == DynamicPduName(pdus, pdu_id, 1)
                         IN DynamicLoop(f, header_size, pdus, db, data_at + pdu_length,
                                Append(contained_pdus,
                                       [pdu_id |-> pdu_id, name |-> pdu_name,
                                        data |-> pdu_data]),
                                PushDecoded(decoded_events,
                                            get_message_by_name(db, pdu_name), pdu_data, f))

\* decode_dynamic_container without the check of the frame length against
\* the header size
decode_dynamic_container_unchecked(f, container_def, header_size, pdus, db) ==
    LET Finish(r) ==
            IF r.ok
            THEN Ok(<<ContainerPdu(f, container_def, r.events[1])>> \o r.events[2])
            ELSE r
    IN Finish(DynamicLoop(f, header_size, pdus, db, 0, <<>>, <<>>))

decode_dynamic_container(f, container_def, header_size, pdus, db) ==
    IF Len(f.data) < header_size THEN Err("InvalidData")
    ELSE LET r == DynamicLoop(f, header_size, pdus, db, 0, <<>>, <<>>)
         IN IF r.ok
            THEN Ok(<<ContainerPdu(f, container_def, r.events[1])>> \o r.events[2])
            ELSE r

\* the while loop of decode_queued_container from `offset` / `instance` on
RECURSIVE QueuedLoop(_, _, _, _, _, _, _, _)
QueuedLoop(f, pdu_id, pdu_size, db, offset, instance, contained_pdus, decoded_events) ==
    IF ~(offset + pdu_size <= Len(f.data)) THEN <<contained_pdus, decoded_events>>
    ELSE LET pdu_data == Slice(f.data, offset, offset + pdu_size)
         IN IF AllZero(pdu_data) THEN <<contained_pdus, decoded_events>>
            ELSE QueuedLoop(f, pdu_id, pdu_size, db, offset + pdu_size, instance + 1,
                     Append(contained_pdus,
                            [pdu_id |-> pdu_id,
                             name |-> "PDU_" \o ToString(pdu_id) \o "_" \o ToString(instance),
                             data |-> pdu_data]),
                     PushDecoded(decoded_events, get_message(db, pdu_id), pdu_data, f))

\* decode_queued_container counting the instances from 1
decode_queued_container_from_one(f, container_def, pdu_id, pdu_size, db) ==
    LET Finish(r) == Ok(<<ContainerPdu(f, container_def, r[1])>> \o r[2])
    IN Finish(QueuedLoop(f, pdu_id, pdu_size, db, 0, 1, <<>>, <<>>))

decode_queued_container(f, container_def, pdu_id, pdu_size, db) ==
    LET r == QueuedLoop(f, pdu_id, pdu_size, db, 0, 0, <<>>, <<>>)
    IN Ok(<<ContainerPdu(f, container_def, r[1])>> \o r[2])

\* ContainerDecoder::decode_container -> Result<Vec<DecodedEvent>>
decode_container(f, container_def, db) ==
    LET layout == container_def.layout
    IN CASE layout.kind = "Static" ->
              decode_static_container(f, container_def, layout.pdus, db)
         [] layout.kind = "Dynamic" ->
              decode_dynamic_container(f, container_def, layout.header_size,
                                       layout.pdus, db)
         [] layout.kind = "Queued" ->
              decode_queued_container(f, container_def, layout.pdu_id,
                                      layout.pdu_size, db)

----------------------------------------------------------------------------
(* The composing iterator: decoder.rs *)

RawFrame(f) ==
    [kind |-> "RawFrame", timestamp |-> timestamp(f), channel |-> f.channel,
     can_id |-> f.can_id, data |-> f.data, is_fd |-> f.is_fd]

\* an Err item of the iterator
ErrorItem(kind) == [kind |-> "Error", err |-> kind]

\* what process_frame hands back: its Result<Option<DecodedEvent>>, the pending
\* queue it leaves, and the events the decoder built
Processed(item, pending, events) == [item |-> item, pending |-> pending, events |-> events]

\* process_frame looking the id up in the message table first
process_frame_message_first(pending, f, db) ==
    LET container_def == get_container(db, f.can_id)
        message_def == get_message(db, f.can_id)
        Split(container_events) ==
            IF ~container_events.ok
            THEN Processed(Some(ErrorItem(container_events.err)), pending, <<>>)
            ELSE Processed(Some(container_events.events[1]),
                           pending \o Tail(container_events.events),
                           container_events.events)
        Emit(decoded_event) ==
            IF decoded_event.some
            THEN Processed(Some(decoded_event.val), pending, <<decoded_event.val>>)
            ELSE Processed(Some(RawFrame(f)), pending, <<RawFrame(f)>>)
    IN IF message_def.some
       THEN Emit(decode_message(f, message_def.val))
       ELSE IF container_def.some
       THEN Split(decode_container(f, container_def.val, db))
       ELSE Processed(Some(RawFrame(f)), pending, <<RawFrame(f)>>)

\* DecodingIterator::process_frame
process_frame(pending, f, db) ==
    LET container_def == get_container(db, f.can_id)
        message_def == get_message(db, f.can_id)
        \* what becomes of the events of decode_container
        Split(container_events) ==
            IF ~container_events.ok
            THEN Processed(Some(ErrorItem(container_events.err)), pending, <<>>)
            ELSE IF container_events.events = <<>>
            THEN Processed(None, pending, <<>>)
            ELSE Processed(Some(container_events.events[1]),
                           pending \o Tail(container_events.events),
                           container_events.events)
        \* what becomes of the result of decode_message
        Emit(decoded_event) ==
            IF decoded_event.some
            THEN Processed(Some(decoded_event.val), pending, <<decoded_event.val>>)
            ELSE Processed(Some(RawFrame(f)), pending, <<RawFrame(f)>>)
    IN IF container_def.some
       THEN Split(decode_container(f, container_def.val, db))
       ELSE IF message_def.some
       THEN Emit(decode_message(f, message_def.val))
       ELSE Processed(Some(RawFrame(f)), pending, <<RawFrame(f)>>)

----------------------------------------------------------------------------
(* Message definitions from DBC: signals/dbc.rs.  A parsed DBC signal has  *)
(* a multiplexer indicator: Plain, Multiplexor or MultiplexedSignal(n).    *)

\* the first pass of convert_message from signal i on: <<is_multiplexed, name>>
RECURSIVE FirstPass(_, _, _)
FirstPass(dbc_signals, i, is_multiplexed) ==
    IF i > Len(dbc_signals) THEN <<is_multiplexed, None>>
    ELSE IF dbc_signals[i].indicator.kind = "Multiplexor"
         THEN <<TRUE, Some(dbc_signals[i].name)>>
         ELSE FirstPass(dbc_signals, i + 1,
                        is_multiplexed \/ dbc_signals[i].indicator.kind = "MultiplexedSignal")

\* convert_signal(dbc_sig, multiplexer_signal_name) -> Result<SignalDefinition>
convert_signal(dbc_sig, multiplexer_signal_name) ==
    IF dbc_sig.indicator.kind = "MultiplexedSignal" /\ ~multiplexer_signal_name.some
    THEN Err("InvalidSignalDefinition")
    ELSE [ok |-> TRUE,
          val |-> [name |-> dbc_sig.name,
                   start_bit |-> dbc_sig.start_bit,
                   length |-> dbc_sig.signal_size,
                   byte_order |-> dbc_sig.byte_order,
                   value_type |-> dbc_sig.value_type,
                   factor |-> dbc_sig.factor,
                   offset |-> dbc_sig.offset,
                   value_table |-> None,
                   multiplexer_info |->
                       IF dbc_sig.indicator.kind = "MultiplexedSignal"
                       THEN Some([multiplexer_signal |-> multiplexer_signal_name.val,
                                  multiplexer_values |-> <<dbc_sig.indicator.switch_value>>])
                       ELSE None]]

\* the second pass of convert_message from signal i on
RECURSIVE SecondPass(_, _, _, _)
SecondPass(dbc_signals, multiplexer_signal_name, i, signals) ==
    IF i > Len(dbc_signals) THEN [ok |-> TRUE, val |-> signals]
    ELSE LET signal == convert_signal(dbc_signals[i], multiplexer_signal_name)
         IN IF ~signal.ok THEN signal
            ELSE SecondPass(dbc_signals, multiplexer_signal_name, i + 1,
                            Append(signals, signal.val))

\* convert_message(dbc_msg, source) -> Result<MessageDefinition>
convert_message(dbc_msg, source) ==
    LET first == FirstPass(dbc_msg.signals, 1, FALSE)
        signals == SecondPass(dbc_msg.signals, first[2], 1, <<>>)
    IN IF ~signals.ok THEN signals
       ELSE [ok |-> TRUE,
             val |-> [id |-> dbc_msg.message_id,
                      name |-> dbc_msg.message_name,
                      size |-> dbc_msg.message_size,
                      sender |-> dbc_msg.transmitter,
                      signals |-> signals.val,
                      is_multiplexed |-> first[1],
                      multiplexer_signal |-> first[2],
                      source |-> source]]

----------------------------------------------------------------------------
(* Inputs *)

ByteOrders == {"LittleEndian", "BigEndian"}
ValueTypes == {"Unsigned", "Signed"}

Payloads == SeqsUpTo(ByteVals, MaxDataLen)

NoFrame == [none |-> TRUE]

CanFrame(timestamp_ns, channel, can_id, data, is_fd) ==
    [timestamp_ns |-> timestamp_ns, channel |-> channel, can_id |-> can_id,
     data |-> data, is_fd |-> is_fd]

\* an ungated, unscaled signal definition
PlainSignal(name, start_bit, length, byte_order, value_type) ==
    [name |-> name, start_bit |-> start_bit, length |-> length,
     byte_order |-> byte_order, value_type |-> value_type,
     factor |-> 1, offset |-> 0, value_table |-> None, multiplexer_info |-> None]

ExtractInputs ==
    {[data |-> d, signal |-> PlainSignal("S", sb, len, bo, vt)] :
        d \in Payloads, sb \in 0..MaxStartBit, len \in 1..MaxSigLen,
        bo \in ByteOrders, vt \in ValueTypes}

SignExtendInputs ==
    UNION {{[value |-> r, bit_length |-> len] : r \in 0..(Pow2(len) - 1)} :
              len \in 1..MaxSignLen}

\* no BLF file is open
BlfIdle ==
    /\ objects = Unset
    /\ yielded = <<>>

BlfVars == <<objects, yielded>>

\* the decoding iterator stays as constructed
DecoderIdle ==
    /\ signal_db = new_database
    /\ frame = NoFrame
    /\ pending_events = <<>>
    /\ frame_events = <<>>
    /\ returned = <<>>
    /\ pulled = 0
    /\ done = FALSE

DecoderVars == <<signal_db, frame, pending_events, frame_events, returned, pulled, done>>

\* the iterators stay as constructed in the pure-function specifications
IteratorIdle == DecoderIdle /\ BlfIdle

IteratorVars == <<DecoderVars, BlfVars>>

----------------------------------------------------------------------------
(* SpecExtract: extract_signal_value applied to a payload and a signal *)

InitExtract ==
    /\ arg \in ExtractInputs
    /\ res = Unset
    /\ IteratorIdle

ExtractSignalValue ==
    /\ res = Unset
    /\ res' = extract_signal_value(arg.data, arg.signal)
    /\ UNCHANGED <<arg, IteratorVars>>

NextExtract == ExtractSignalValue

SpecExtract == InitExtract /\ [][NextExtract]_vars

----------------------------------------------------------------------------
(* SpecSignExtend: sign_extend applied to a raw value of a given length *)

InitSignExtend ==
    /\ arg \in SignExtendInputs
    /\ res = Unset
    /\ IteratorIdle

SignExtend ==
    /\ res = Unset
    /\ res' = Some(sign_extend(U64OfI64(arg.value), arg.bit_length))
    /\ UNCHANGED <<arg, IteratorVars>>

NextSignExtend == SignExtend

SpecSignExtend == InitSignExtend /\ [][NextSignExtend]_vars

----------------------------------------------------------------------------
(* Claims about the signal extractor *)

Extracted == res # Unset /\ res.some

\* bit i of a non-negative number
NumBit(n, i) == (n \div Pow2(i)) % 2

\* C5: big-endian extraction of an 8-bit unsigned signal at start_bit 8k+7
\* returns payload[k] whenever the signal passes the bounds check.
C5_BigEndianByte ==
    (/\ Extracted
     /\ arg.signal.byte_order = "BigEndian"
     /\ arg.signal.value_type = "Unsigned"
     /\ arg.signal.length = 8
     /\ arg.signal.start_bit % 8 = 7)
    => res.val = arg.data[(arg.signal.start_bit \div 8) + 1]

\* C6: little-endian extraction returns the number whose bit i, for i in
\* 0..L-1, is bit (s+i) mod 8 of payload byte (s+i) div 8, and whose bits from
\* L on are zero; so an 8-bit signal at start_bit 8k is payload[k] and a
\* 16-bit signal at bit 0 is payload[0] + 256 * payload[1].
C6_LittleEndianBits ==
    (/\ Extracted
     /\ arg.signal.byte_order = "LittleEndian"
     /\ arg.signal.value_type = "Unsigned")
    => LET s == arg.signal.start_bit
           L == arg.signal.length
       IN /\ res.val >= 0 /\ res.val < Pow2(L)
          /\ \A i \in 0..(L - 1) :
                NumBit(res.val, i) = NumBit(arg.data[((s + i) \div 8) + 1], (s + i) % 8)
          /\ (L = 8 /\ s % 8 = 0) => res.val = arg.data[(s \div 8) + 1]
          /\ (L = 16 /\ s = 0) => res.val = arg.data[1] + 256 * arg.data[2]

\* a 16-bit little-endian signal spanning two different non-zero bytes has been extracted
C6_Witness ==
    /\ Extracted
    /\ arg.signal.byte_order = "LittleEndian"
    /\ arg.signal.value_type = "Unsigned"
    /\ arg.signal.length = 16 /\ arg.signal.start_bit = 0
    /\ arg.data[1] = 171 /\ arg.data[2] = 1
    /\ res.val = 427

\* C7: sign_extend(R, L) is R when R < 2^(L-1) and R - 2^L otherwise, for every
\* length L and every raw value R below 2^L.
C7_SignExtendLaw ==
    (res # Unset)
    => res.val = IF arg.value < Pow2(arg.bit_length - 1) THEN arg.value
                 ELSE arg.value - Pow2(arg.bit_length)

\* a raw value with its top bit set has been sign-extended to a negative number
C7_Witness ==
    /\ res # Unset
    /\ arg.bit_length > 1
    /\ arg.value >= Pow2(arg.bit_length - 1)
    /\ res.val < 0

----------------------------------------------------------------------------
(* SpecMessage: decode_message applied to a payload and a message          *)
(* definition converted from a DBC message                                 *)

DbcSignal(name, start_bit, signal_size, byte_order, value_type, indicator) ==
    [name |-> name, start_bit |-> start_bit, signal_size |-> signal_size,
     byte_order |-> byte_order, value_type |-> value_type, factor |-> 1, offset |-> 0,
     indicator |-> indicator]

Plain == [kind |-> "Plain", switch_value |-> 0]
Multiplexor == [kind |-> "Multiplexor", switch_value |-> 0]
MultiplexedSignal(n) == [kind |-> "MultiplexedSignal", switch_value |-> n]

DbcSignalPool ==
    {DbcSignal("Mode", 0, 8, "LittleEndian", "Unsigned", Multiplexor),
     DbcSignal("SignalA", 8, 16, "LittleEndian", "Unsigned", MultiplexedSignal(0)),
     DbcSignal("SignalB", 0, 4, "LittleEndian", "Unsigned", MultiplexedSignal(1)),
     DbcSignal("ModeHi", 8, 8, "LittleEndian", "Unsigned", Multiplexor),
     DbcSignal("Flag", 0, 1, "LittleEndian", "Unsigned", Plain),
     DbcSignal("Far", 16, 8, "LittleEndian", "Signed", Plain)}

Distinct(seq) == \A i, j \in 1..Len(seq) : i # j => seq[i] # seq[j]

DbcMessage(message_id, message_name, signals) ==
    [message_id |-> message_id, message_name |-> message_name, message_size |-> 8,
     transmitter |-> Some("ECU"), signals |-> signals]

DbcMessages ==
    {DbcMessage(513, "Msg", sigs) :
        sigs \in {q \in SeqsUpTo(DbcSignalPool, MaxSignals) : Len(q) > 0 /\ Distinct(q)}}

MessageInputs ==
    {[data |-> d, message_def |-> convert_message(m, "test.dbc").val] :
        d \in Payloads,
        m \in {x \in DbcMessages : convert_message(x, "test.dbc").ok}}

InitMessage ==
    /\ arg \in MessageInputs
    /\ res = Unset
    /\ IteratorIdle

DecodeMessage ==
    /\ res = Unset
    /\ res' = decode_message(CanFrame(1500000000, 1, arg.message_def.id, arg.data, FALSE),
                             arg.message_def)
    /\ UNCHANGED <<arg, IteratorVars>>

NextMessage == DecodeMessage

SpecMessage == InitMessage /\ [][NextMessage]_vars

----------------------------------------------------------------------------
(* Claims about the message decoder *)

\* the names of the decoded signals of an optional Message event
DecodedNames(event) ==
    IF event.some THEN {event.val.signals[k].name : k \in 1..Len(event.val.signals)}
    ELSE {}

Gated(signal) == signal.multiplexer_info.some
Activating(signal) ==
    {signal.multiplexer_info.val.multiplexer_values[k] :
        k \in 1..Len(signal.multiplexer_info.val.multiplexer_values)}

\* ceil((start_bit + length) / 8) <= the payload length
Fits(signal, data) ==
    LET bits == signal.start_bit + signal.length
        ceil == CHOOSE n \in 0..bits : 8 * n >= bits /\ 8 * (n - 1) < bits
    IN ceil <= Len(data)

\* The active selector read straight from the payload: every multiplexer
\* signal of the pool is an unsigned byte at a byte boundary.
ActiveSelector(message_def, data) ==
    IF ~message_def.multiplexer_signal.some THEN None
    ELSE LET named == {k \in 1..Len(message_def.signals) :
                          message_def.signals[k].name = message_def.multiplexer_signal.val}
         IN IF named = {} THEN None
            ELSE LET mux == message_def.signals[CHOOSE k \in named : \A j \in named : k <= j]
                     byte == mux.start_bit \div 8
                 IN IF byte < Len(data) THEN Some(data[byte + 1]) ELSE None

SignalsOf(message_def) == {message_def.signals[k] : k \in 1..Len(message_def.signals)}

\* C4: in a Message event decoded from a multiplexed definition a gated signal
\* appears only if its activating values contain the active selector of the
\* same payload; so no two signals with disjoint activating values appear
\* together, no gated signal appears when the selector cannot be extracted, and
\* every ungated signal that fits the payload is decoded.
C4_MultiplexerGate ==
    (res # Unset /\ arg.message_def.is_multiplexed)
    => LET selector == ActiveSelector(arg.message_def, arg.data)
           names == DecodedNames(res)
           signals == SignalsOf(arg.message_def)
       IN /\ \A s \in signals :
                (Gated(s) /\ s.name \in names)
                => (selector.some /\ selector.val \in Activating(s))
          /\ \A s, t \in signals :
                (Gated(s) /\ Gated(t) /\ s.name \in names /\ t.name \in names)
                => Activating(s) \cap Activating(t) # {}
          /\ ~selector.some => \A s \in signals : Gated(s) => s.name \notin names
          /\ \A s \in signals : (~Gated(s) /\ Fits(s, arg.data)) => s.name \in names

\* a multiplexed message has been decoded with one gated signal in the event and
\* another one, which fits the payload, left out
C4_Witness ==
    /\ res # Unset /\ res.some
    /\ arg.message_def.is_multiplexed
    /\ \E s, t \in SignalsOf(arg.message_def) :
          /\ Gated(s) /\ Gated(t)
          /\ s.name \in DecodedNames(res)
          /\ t.name \notin DecodedNames(res)
          /\ Fits(t, arg.data)

\* C8: a signal that the multiplexer gate lets through is skipped exactly when
\* ceil((start_bit + length) / 8) exceeds the payload length; a signal that is
\* not skipped lies entirely inside the payload; and a skipped signal does not
\* keep the other signals of the message, before or after it, from being decoded.
C8_BoundsCheck ==
    (res # Unset)
    => LET selector == ActiveSelector(arg.message_def, arg.data)
           names == DecodedNames(res)
       IN \A s \in SignalsOf(arg.message_def) :
             LET let_through == ~Gated(s)
                                \/ (selector.some /\ selector.val \in Activating(s))
             IN /\ let_through => (s.name \in names <=> Fits(s, arg.data))
                /\ s.name \in names
                   => \A i \in 0..(s.length - 1) : (s.start_bit + i) \div 8 < Len(arg.data)

\* a message whose first signal is skipped for the payload's length has had a
\* later signal decoded
C8_Witness ==
    /\ res # Unset /\ res.some
    /\ Len(arg.message_def.signals) >= 2
    /\ ~Fits(arg.message_def.signals[1], arg.data)
    /\ ~Gated(arg.message_def.signals[1])
    /\ arg.message_def.signals[2].name \in DecodedNames(res)

----------------------------------------------------------------------------
(* SpecStatic: decode_static_container applied to a payload and a Static   *)
(* container whose layout parse_contained_pdus built                       *)

PduNames == {"PduA", "PduB", "PduC"}
ContainerLengths == {2, 8}

\* the contained I-PDUs of the model as messages of their own
PduMessage(name) ==
    [id |-> 1024 + generate_pdu_id(name), name |-> name, size |-> 8, sender |-> None,
     signals |-> <<PlainSignal(name \o "_Value", 0, 8, "LittleEndian", "Unsigned")>>,
     is_multiplexed |-> FALSE, multiplexer_signal |-> None, source |-> "system.arxml"]

PduDb ==
    add_message(add_message(add_message(new_database, PduMessage("PduA")),
                            PduMessage("PduB")), PduMessage("PduC"))

ContainerRefs ==
    {q \in SeqsUpTo([name : PduNames, size : 0..MaxPduSize], Cardinality(PduNames)) :
        \A i, j \in 1..Len(q) : i # j => q[i].name # q[j].name}

StaticContainer(can_id, name, refs, container_length) ==
    parse_container_i_pdu(name, can_id, container_length, "NONE", refs)

StaticInputs ==
    {[data |-> d, container_def |-> StaticContainer(256, "Container", refs, len)] :
        d \in Payloads, refs \in ContainerRefs, len \in ContainerLengths}

InitStatic ==
    /\ arg \in StaticInputs
    /\ res = Unset
    /\ IteratorIdle

DecodeStatic ==
    /\ res = Unset
    /\ res' = decode_static_container(CanFrame(1500000000, 1, arg.container_def.id,
                                               arg.data, FALSE),
                                      arg.container_def, arg.container_def.layout.pdus,
                                      PduDb)
    /\ UNCHANGED <<arg, IteratorVars>>

NextStatic == DecodeStatic

SpecStatic == InitStatic /\ [][NextStatic]_vars

----------------------------------------------------------------------------
(* Claims about Static containers *)

DeclaredPdus == arg.container_def.layout.pdus

InsidePayload(p) == p.position + p.size <= Len(arg.data)

\* the contained PDU a declared sub-PDU stands for
ExpectedPdu(p) ==
    [pdu_id |-> p.pdu_id, name |-> p.name,
     data |-> [k \in 1..p.size |-> arg.data[p.position + k]]]

RECURSIVE ExpectedPdus(_)
ExpectedPdus(pdus) ==
    IF pdus = <<>> THEN <<>>
    ELSE (IF InsidePayload(Head(pdus)) THEN <<ExpectedPdu(Head(pdus))>> ELSE <<>>)
         \o ExpectedPdus(Tail(pdus))

\* C9: decoding a Static container gives a ContainerPdu event whose contained
\* PDUs are exactly the declared sub-PDUs with position + size <= payload
\* length, in declared order, each with its declared id and name and the bytes
\* payload[position .. position+size]; a sub-PDU that overflows is left out
\* and the others are not affected.
C9_StaticContained ==
    (res # Unset)
    => /\ res.ok
       /\ res.events[1].kind = "ContainerPdu"
       /\ res.events[1].contained_pdus = ExpectedPdus(DeclaredPdus)

\* a container with a sub-PDU inside the payload and one overflowing it has been decoded
C9_Witness ==
    /\ res # Unset
    /\ \E i, j \in 1..Len(DeclaredPdus) :
          /\ InsidePayload(DeclaredPdus[i]) /\ DeclaredPdus[i].size > 0
          /\ ~InsidePayload(DeclaredPdus[j])
    /\ Len(res.events[1].contained_pdus) >= 1

\* the names of the contained PDUs and of the decoded messages of a result
ContributedNames(r) ==
    {r.events[1].contained_pdus[k].name : k \in 1..Len(r.events[1].contained_pdus)}
    \cup {r.events[k].message_name.val : k \in 2..Len(r.events)}

----------------------------------------------------------------------------
(* SpecDynamic: decode_dynamic_container applied to a payload and a        *)
(* Dynamic container with 4-byte or 8-byte headers                          *)

DynamicBytes == {0, 1, 2}

\* payloads with contained PDUs and an end marker under 4-byte headers
ShortHeaderExamples ==
    {<<0, 1, 2, 0, 170, 187, 0, 2, 3, 0, 204, 221, 238, 0, 0, 0, 0>>,
     <<0, 7, 1, 0, 170, 0, 1, 9, 0>>}

\* the same under 8-byte headers
LongHeaderExamples ==
    {<<0, 0, 0, 1, 0, 0, 0, 2, 170, 187, 0, 0, 0, 2, 0, 0, 0, 1, 204,
       0, 0, 0, 0, 0, 0, 0, 0, 1>>,
     <<0, 0, 1, 0, 0, 0, 0, 1, 170, 0, 0, 0, 1, 0, 0, 0, 9>>}

DynamicData == SeqsUpTo(DynamicBytes, MaxDynLen)

HeaderTypes == {"SHORT-HEADER", "LONG-HEADER"}

DynamicContainer(header_type) ==
    parse_container_i_pdu("DynamicContainer", 257, 64, header_type,
        <<[name |-> "PduA", size |-> 1], [name |-> "PduB", size |-> 2]>>)

DynamicInputs ==
    {[data |-> d, container_def |-> DynamicContainer(t)] :
        d \in DynamicData, t \in HeaderTypes}
    \cup {[data |-> d, container_def |-> DynamicContainer("SHORT-HEADER")] :
            d \in ShortHeaderExamples}
    \cup {[data |-> d, container_def |-> DynamicContainer("LONG-HEADER")] :
            d \in LongHeaderExamples}

InitDynamic ==
    /\ arg \in DynamicInputs
    /\ res = Unset
    /\ IteratorIdle

DecodeDynamic ==
    /\ res = Unset
    /\ res' = decode_dynamic_container(CanFrame(1500000000, 1, arg.container_def.id,
                                                arg.data, FALSE),
                                       arg.container_def,
                                       arg.container_def.layout.header_size,
                                       arg.container_def.layout.pdus, PduDb)
    /\ UNCHANGED <<arg, IteratorVars>>

NextDynamic == DecodeDynamic

SpecDynamic == InitDynamic /\ [][NextDynamic]_vars

----------------------------------------------------------------------------
(* Claims about Dynamic containers *)

\* the id and the length a header at offset o declares
HeaderId(data, h, o) ==
    IF h = 4 THEN 256 * data[o + 1] + data[o + 2]
    ELSE 16777216 * data[o + 1] + 65536 * data[o + 2] + 256 * data[o + 3] + data[o + 4]

HeaderLength(data, h, o) ==
    IF h = 4 THEN data[o + 3]
    ELSE 16777216 * data[o + 5] + 65536 * data[o + 6] + 256 * data[o + 7] + data[o + 8]

\* the (id, data) pairs of the walk from offset o on
RECURSIVE HeaderWalk(_, _, _)
HeaderWalk(data, h, o) ==
    IF o + h > Len(data) THEN <<>>
    ELSE IF \A k \in 1..h : data[o + k] = 0 THEN <<>>
    ELSE IF o + h + HeaderLength(data, h, o) > Len(data) THEN <<>>
    ELSE <<[pdu_id |-> HeaderId(data, h, o),
            data |-> [k \in 1..HeaderLength(data, h, o) |-> data[o + h + k]]]>>
         \o HeaderWalk(data, h, o + h + HeaderLength(data, h, o))

\* the contained PDUs of a result, without their names
ContainedOf(r) ==
    IF r.ok
    THEN [k \in 1..Len(r.events[1].contained_pdus) |->
            [pdu_id |-> r.events[1].contained_pdus[k].pdu_id,
             data |-> r.events[1].contained_pdus[k].data]]
    ELSE <<>>

\* C11: the contained PDUs of a Dynamic container are the (header, data) pairs
\* of the walk from offset 0: big-endian id and length from the 4-byte or
\* 8-byte header, exactly `length` data bytes after it, the next header right
\* behind, and nothing from the first position where the header does not fit,
\* is all zero, or declares more bytes than remain.
C11_DynamicWalk ==
    (res # Unset)
    => ContainedOf(res)
       = HeaderWalk(arg.data, arg.container_def.layout.header_size, 0)

\* the payload 00 01 02 00 AA BB 00 02 03 00 CC DD EE 00 00 00 00 has been
\* decoded with 4-byte headers into id 1 [AA BB] and id 2 [CC DD EE]
C11_Witness ==
    /\ res # Unset
    /\ arg.data = <<0, 1, 2, 0, 170, 187, 0, 2, 3, 0, 204, 221, 238, 0, 0, 0, 0>>
    /\ arg.container_def.layout.header_size = 4
    /\ ContainedOf(res) = <<[pdu_id |-> 1, data |-> <<170, 187>>],
                            [pdu_id |-> 2, data |-> <<204, 221, 238>>]>>

----------------------------------------------------------------------------
(* SpecContainer: decode_container applied to a payload and a container    *)
(* definition of each layout                                               *)

ContainerData == SeqsUpTo(DynamicBytes, MaxContainerLen)

\* a Queued container definition, as the unit test test_queued_container builds it
QueuedContainer(pdu_id, pdu_size) ==
    [id |-> 256, name |-> "QueuedContainer", container_type |-> "Queued",
     layout |-> [kind |-> "Queued", pdu_id |-> pdu_id, pdu_size |-> pdu_size],
     source |-> "test"]

\* the pdu-id of a Queued container: the CAN id of the message PduA, or an id
\* without a message
QueuedPduIds == {PduMessage("PduA").id, 42}

ContainerDefs ==
    {StaticContainer(256, "StaticContainer",
                     <<[name |-> "PduA", size |-> 1], [name |-> "PduB", size |-> 2]>>, 8)}
    \cup {DynamicContainer(t) : t \in HeaderTypes}
    \cup {QueuedContainer(id, n) : id \in QueuedPduIds, n \in 0..MaxPduSize}

ContainerInputs ==
    {[data |-> d, container_def |-> c] : d \in ContainerData, c \in ContainerDefs}
    \cup {[data |-> d, container_def |-> DynamicContainer("SHORT-HEADER")] :
            d \in ShortHeaderExamples}
    \cup {[data |-> d, container_def |-> DynamicContainer("LONG-HEADER")] :
            d \in LongHeaderExamples}

InitContainer ==
    /\ arg \in ContainerInputs
    /\ res = Unset
    /\ IteratorIdle

DecodeContainer ==
    /\ res = Unset
    /\ res' = decode_container(CanFrame(1500000000, 1, arg.container_def.id,
                                        arg.data, FALSE),
                               arg.container_def, PduDb)
    /\ UNCHANGED <<arg, IteratorVars>>

NextContainer == DecodeContainer

SpecContainer == InitContainer /\ [][NextContainer]_vars

----------------------------------------------------------------------------
(* Claims about containers of every layout *)

LayoutOf(input) == input.container_def.layout

\* the result is one ContainerPdu event of the container, followed by
\* decoded-message events only
OneContainerEvent(r, container_def) ==
    /\ r.ok
    /\ Len(r.events) >= 1
    /\ r.events[1].kind = "ContainerPdu"
    /\ r.events[1].container_id = container_def.id
    /\ \A k \in 2..Len(r.events) : r.events[k].kind = "Message"

\* a Dynamic container frame that is shorter than one header
ShorterThanHeader(input) ==
    /\ LayoutOf(input).kind = "Dynamic"
    /\ Len(input.data) < LayoutOf(input).header_size

\* C12 as stated: for every container layout and every payload, the empty one
\* and one shorter than a header included, decoding gives exactly one
\* ContainerPdu event and no error.
C12_NeverAnError ==
    (res # Unset) => OneContainerEvent(res, arg.container_def)

\* C12 amended: decoding gives exactly one ContainerPdu event and no error for
\* every Static and Queued container and for every Dynamic container whose
\* payload holds at least one header; a Dynamic container frame shorter than
\* one header gives the error InvalidData and no event.
C12_OneEventOrInvalidData ==
    (res # Unset)
    => IF ShorterThanHeader(arg)
       THEN res = Err("InvalidData")
       ELSE OneContainerEvent(res, arg.container_def)

\* an empty payload has been decoded for a Dynamic container, with an error,
\* and the same payload gives a Static container an empty ContainerPdu event
C12_Witness ==
    /\ res # Unset
    /\ arg.data = <<>>
    /\ LayoutOf(arg).kind = "Dynamic"
    /\ ~res.ok
    /\ OneContainerEvent(decode_container(CanFrame(1500000000, 1, 256, <<>>, FALSE),
                                          StaticContainer(256, "StaticContainer",
                                              <<[name |-> "PduA", size |-> 1]>>, 8),
                                          PduDb),
                         StaticContainer(256, "StaticContainer",
                                         <<[name |-> "PduA", size |-> 1]>>, 8))

\* instance i (from 0) of a Queued payload cut into n-byte instances
QueuedFits(data, n, i) == (i + 1) * n <= Len(data)
QueuedInstance(data, n, i) == [k \in 1..n |-> data[i * n + k]]
QueuedLive(data, n, i) ==
    /\ QueuedFits(data, n, i)
    /\ \E k \in 1..n : data[i * n + k] # 0

\* the number of instances before the stop point
QueuedCount(data, n) ==
    CHOOSE c \in 0..(Len(data) + 1) :
        /\ \A i \in 0..(c - 1) : QueuedLive(data, n, i)
        /\ ~QueuedLive(data, n, c)

\* C13: the contained PDUs of a Queued container with sub-PDU size n are the
\* consecutive n-byte instances from offset 0 before the first all-zero
\* instance or the first one that does not fit, in order, instance i named
\* PDU_<pdu_id>_<i> and holding payload[i*n .. (i+1)*n].
C13_QueuedInstances ==
    (res # Unset /\ LayoutOf(arg).kind = "Queued")
    => /\ res.ok
       /\ res.events[1].contained_pdus
          = [j \in 1..QueuedCount(arg.data, LayoutOf(arg).pdu_size) |->
                [pdu_id |-> LayoutOf(arg).pdu_id,
                 name |-> "PDU_" \o ToString(LayoutOf(arg).pdu_id) \o "_"
                          \o ToString(j - 1),
                 data |-> QueuedInstance(arg.data, LayoutOf(arg).pdu_size, j - 1)]]

\* a Queued payload with two live instances, then an all-zero one, then more
\* bytes has been decoded into the two instances
C13_Witness ==
    /\ res # Unset /\ LayoutOf(arg).kind = "Queued"
    /\ LayoutOf(arg).pdu_size = 1
    /\ arg.data = <<1, 2, 0, 1>>
    /\ Len(res.events[1].contained_pdus) = 2
    /\ res.events[1].contained_pdus[2].name
       = "PDU_" \o ToString(LayoutOf(arg).pdu_id) \o "_1"

----------------------------------------------------------------------------
(* Spec: the decoding iterator over a database loaded from one DBC file and *)
(* one ARXML file                                                           *)

\* the messages of the DBC file
DbcFile ==
    <<DbcMessage(512, "Status",
                 <<DbcSignal("Flag", 0, 1, "LittleEndian", "Unsigned", Plain),
                   DbcSignal("Level", 8, 8, "LittleEndian", "Signed", Plain)>>),
      DbcMessage(513, "MuxMsg",
                 <<DbcSignal("Mode", 0, 8, "LittleEndian", "Unsigned", Multiplexor),
                   DbcSignal("SignalA", 8, 16, "LittleEndian", "Unsigned",
                             MultiplexedSignal(0)),
                   DbcSignal("SignalB", 8, 16, "LittleEndian", "Unsigned",
                             MultiplexedSignal(1))>>),
      DbcMessage(768, "Shadowed",
                 <<DbcSignal("Flag", 0, 1, "LittleEndian", "Unsigned", Plain)>>)>>

\* the messages and the containers of the ARXML file
ArxmlMessages == <<PduMessage("PduA"), PduMessage("PduB"), PduMessage("PduC")>>

ArxmlContainers ==
    <<parse_container_i_pdu("StaticContainer", 256, 8, "NONE",
          <<[name |-> "PduA", size |-> 1], [name |-> "PduB", size |-> 1],
            [name |-> "PduC", size |-> 1]>>),
      parse_container_i_pdu("DynamicContainer", 257, 64, "SHORT-HEADER",
          <<[name |-> "PduA", size |-> 1], [name |-> "PduB", size |-> 1]>>),
      parse_container_i_pdu("Shadowing", 768, 8, "NONE",
          <<[name |-> "PduA", size |-> 1]>>)>>

RECURSIVE AddMessages(_, _)
AddMessages(db, messages) ==
    IF messages = <<>> THEN db
    ELSE AddMessages(add_message(db, Head(messages)), Tail(messages))

RECURSIVE AddContainers(_, _)
AddContainers(db, containers) ==
    IF containers = <<>> THEN db
    ELSE AddContainers(add_container(db, Head(containers)), Tail(containers))

\* Decoder::add_dbc for a file that parses
add_dbc(db, dbc_messages) ==
    AddMessages(db, [k \in 1..Len(dbc_messages) |->
                        convert_message(dbc_messages[k], "test.dbc").val])

\* Decoder::add_arxml for a file that parses
add_arxml(db, messages, containers) == AddContainers(AddMessages(db, messages), containers)

LoadedDb == add_arxml(add_dbc(new_database, DbcFile), ArxmlMessages, ArxmlContainers)

\* payloads long enough for the 4-byte headers of a Dynamic container: one
\* contained PDU (id 1, one byte), two of them (ids 1 and 2), two and an end marker
DynamicPayloads ==
    {<<0, 1, 1, 0, 171>>,
     <<0, 1, 1, 0, 171, 0, 2, 1, 0, 1>>,
     <<0, 2, 1, 0, 1, 0, 1, 1, 0, 171, 0, 0, 0, 0>>}

CanIds == {256, 257, 512, 513, 768, 2047}

\* timestamp, channel and fd flag of the frames
FrameAttrs ==
    {[timestamp_ns |-> 1000000000, channel |-> 0, is_fd |-> FALSE],
     [timestamp_ns |-> 1500000001, channel |-> 1, is_fd |-> TRUE]}

FrameBytes == {0, 1}
FramePayloads == SeqsUpTo(FrameBytes, MaxDataLen) \cup DynamicPayloads

Frames ==
    {CanFrame(a.timestamp_ns, a.channel, id, d, a.is_fd) :
        a \in FrameAttrs, id \in CanIds, d \in FramePayloads}

Init ==
    /\ arg = Unset
    /\ res = Unset
    /\ signal_db = LoadedDb
    /\ frame = NoFrame
    /\ pending_events = <<>>
    /\ frame_events = <<>>
    /\ returned = <<>>
    /\ pulled = 0
    /\ done = FALSE
    /\ BlfIdle

\* next(): an event is waiting in pending_events; Vec::pop takes the last one
NextPending ==
    /\ ~done
    /\ pending_events # <<>>
    /\ returned' = Append(returned, pending_events[Len(pending_events)])
    /\ pending_events' = SubSeq(pending_events, 1, Len(pending_events) - 1)
    /\ UNCHANGED <<arg, res, BlfVars, signal_db, frame, frame_events, pulled, done>>

\* a next() that goes to frame_iter while events are still waiting
NextFrameWhilePending ==
    /\ ~done
    /\ pulled < MaxFrames
    /\ \E f \in Frames :
          \E r \in {process_frame(pending_events, f, signal_db)} :
             /\ frame' = f
             /\ pending_events' = r.pending
             /\ frame_events' = r.events
             /\ returned' = IF r.item.some THEN <<r.item.val>> ELSE <<>>
    /\ pulled' = pulled + 1
    /\ UNCHANGED <<arg, res, BlfVars, signal_db, done>>

\* next(): pending_events is empty and frame_iter yields a frame, which
\* process_frame turns into the returned item (when process_frame gives
\* Ok(None) the call goes on to the following frame)
NextFrame ==
    /\ ~done
    /\ pending_events = <<>>
    /\ pulled < MaxFrames
    /\ \E f \in Frames :
          \E r \in {process_frame(pending_events, f, signal_db)} :
             /\ frame' = f
             /\ pending_events' = r.pending
             /\ frame_events' = r.events
             /\ returned' = IF r.item.some THEN <<r.item.val>> ELSE <<>>
    /\ pulled' = pulled + 1
    /\ UNCHANGED <<arg, res, BlfVars, signal_db, done>>

\* a next() that ends the iteration at the first error of frame_iter
NextFrameErrorEndsIteration ==
    /\ ~done
    /\ pending_events = <<>>
    /\ pulled < MaxFrames
    /\ frame' = NoFrame
    /\ frame_events' = <<>>
    /\ returned' = <<ErrorItem("LogParseError")>>
    /\ pulled' = pulled + 1
    /\ done' = TRUE
    /\ UNCHANGED <<arg, res, BlfVars, signal_db, pending_events>>

\* next(): pending_events is empty and frame_iter yields an error
NextFrameError ==
    /\ ~done
    /\ pending_events = <<>>
    /\ pulled < MaxFrames
    /\ frame' = NoFrame
    /\ frame_events' = <<>>
    /\ returned' = <<ErrorItem("LogParseError")>>
    /\ pulled' = pulled + 1
    /\ UNCHANGED <<arg, res, BlfVars, signal_db, pending_events, done>>

\* next(): pending_events is empty and frame_iter is exhausted
NextExhausted ==
    /\ ~done
    /\ pending_events = <<>>
    /\ done' = TRUE
    /\ UNCHANGED <<arg, res, BlfVars, signal_db, frame, pending_events, frame_events, returned, pulled>>

Next == NextPending \/ NextFrame \/ NextFrameError \/ NextExhausted

Spec == Init /\ [][Next]_vars

----------------------------------------------------------------------------
(* Claims about the decoding iterator *)

FramePulled == frame # NoFrame /\ returned # <<>>

IsContainerId(id) == id \in DOMAIN signal_db.containers
IsMessageId(id) == id \in DOMAIN signal_db.messages

\* C1: for a frame whose id matches a container, successive pulls return the
\* ContainerPdu event and then the decoded messages of the contained PDUs in
\* the order the decoder built them, i.e. in payload order.
C1_ContainerEventsInOrder ==
    (FramePulled /\ IsContainerId(frame.can_id) /\ frame_events # <<>>)
    => /\ returned[1].kind = "ContainerPdu"
       /\ returned = SubSeq(frame_events, 1, Len(returned))

\* C2: the iterator routes by CAN id: a container definition wins over a
\* message definition of the same id; without a container a message definition
\* is decoded; an id with neither gives exactly one RawFrame event with the
\* frame's timestamp, channel, id, payload and fd flag, and no error.
C2_RoutingPrecedence ==
    FramePulled
    => LET first == returned[1]
       IN /\ IsContainerId(frame.can_id)
             => /\ first.kind \in {"ContainerPdu", "Error"}
                /\ first.kind = "ContainerPdu"
                   => /\ first.container_id = frame.can_id
                      /\ first.container_name = signal_db.containers[frame.can_id].name
          /\ (~IsContainerId(frame.can_id) /\ IsMessageId(frame.can_id))
             => /\ first.kind \in {"Message", "RawFrame"}
                /\ first.can_id = frame.can_id
                /\ first.kind = "Message"
                   => first.message_name = Some(signal_db.messages[frame.can_id][1].name)
          /\ (~IsContainerId(frame.can_id) /\ ~IsMessageId(frame.can_id))
             => /\ first.kind = "RawFrame"
                /\ first.channel = frame.channel
                /\ first.can_id = frame.can_id
                /\ first.data = frame.data
                /\ first.is_fd = frame.is_fd
                /\ first.timestamp.secs * 1000000000 + first.timestamp.nsecs
                   = frame.timestamp_ns
                /\ first.timestamp.nsecs < 1000000000
                /\ Len(returned) = 1 /\ pending_events = <<>>
                /\ frame_events = <<first>>

\* a frame whose id has both a container and a message definition has gone to
\* the container decoder
C2_Witness ==
    /\ FramePulled
    /\ IsContainerId(frame.can_id) /\ IsMessageId(frame.can_id)
    /\ returned[1].kind = "ContainerPdu"
    /\ Len(returned[1].contained_pdus) = 1

\* whether decode_message can take the signal from the payload: it passes the
\* multiplexer gate and the bounds check
CanExtract(message_def, s, data) ==
    /\ Fits(s, data)
    /\ \/ ~Gated(s)
       \/ LET selector == ActiveSelector(message_def, data)
          IN selector.some /\ selector.val \in Activating(s)

\* every event the iterator holds or has just returned
EventsInFlight ==
    {returned[k] : k \in 1..Len(returned)}
    \cup {pending_events[k] : k \in 1..Len(pending_events)}
    \cup {frame_events[k] : k \in 1..Len(frame_events)}

\* C3: a frame whose id matches a message definition and no container gives
\* exactly one event: a Message with a non-empty signal list when at least one
\* signal can be extracted, else a RawFrame with the frame's payload; and no
\* Message event has an empty signal list.
C3_MessageOrRawFrame ==
    /\ \A e \in EventsInFlight : e.kind = "Message" => e.signals # <<>>
    /\ (FramePulled /\ ~IsContainerId(frame.can_id) /\ IsMessageId(frame.can_id))
       => LET message_def == signal_db.messages[frame.can_id][1]
              extractable == \E s \in SignalsOf(message_def) :
                                 CanExtract(message_def, s, frame.data)
          IN /\ Len(returned) = 1 /\ pending_events = <<>> /\ frame_events = returned
             /\ extractable => returned[1].kind = "Message"
             /\ ~extractable
                => /\ returned[1].kind = "RawFrame"
                   /\ returned[1].data = frame.data
                   /\ returned[1].can_id = frame.can_id

\* a frame of a multiplexed message too short for any signal has been returned
\* as a RawFrame
C3_Witness ==
    /\ FramePulled
    /\ ~IsContainerId(frame.can_id) /\ IsMessageId(frame.can_id)
    /\ signal_db.messages[frame.can_id][1].is_multiplexed
    /\ returned[1].kind = "RawFrame"

\* events of the iterator that carry a timestamp
ItemsWithTimestamp(items) ==
    {items[k] : k \in {j \in 1..Len(items) : items[j].kind # "Error"}}

\* the nanoseconds an event's timestamp stands for
EventNs(e) == e.timestamp.secs * 1000000000 + e.timestamp.nsecs

\* C14: every event carries the timestamp of the frame it was produced from,
\* the ContainerPdu event and the decoded messages of its contained PDUs
\* alike; a further frame is taken only when every event of the frame before
\* has been returned; so when a frame is not older than the frame before it,
\* the event returned for it is not older than the event returned before.
C14_FrameTimestamps ==
    /\ [](frame # NoFrame
          => \A e \in ItemsWithTimestamp(returned) \cup ItemsWithTimestamp(pending_events)
                      \cup ItemsWithTimestamp(frame_events) :
                 EventNs(e) = frame.timestamp_ns /\ e.timestamp.nsecs < 1000000000)
    /\ [][/\ pulled' # pulled => pending_events = <<>>
          /\ (/\ frame # NoFrame /\ frame' # NoFrame
              /\ frame.timestamp_ns <= frame'.timestamp_ns
              /\ ItemsWithTimestamp(returned) # {}
              /\ ItemsWithTimestamp(returned') # {})
             => EventNs(returned[Len(returned)]) <= EventNs(returned'[Len(returned')])]_vars

\* the second frame, later than the first, has given a ContainerPdu event and
\* a decoded message, both returned with the frame's timestamp
C14_Witness ==
    /\ pulled = 2
    /\ frame # NoFrame /\ frame.timestamp_ns = 1500000001
    /\ Len(returned) >= 2
    /\ returned[1].kind = "ContainerPdu"
    /\ returned[2].kind = "Message"
    /\ returned[2].timestamp = [secs |-> 1, nsecs |-> 500000001]

\* next() has taken an item from frame_iter and returned an error for it
ErrorPull ==
    /\ pulled' = pulled + 1
    /\ Len(returned') = 1
    /\ returned'[1].kind = "Error"

\* C19: a pull that returns an error item accounts for one frame only: it
\* takes one item from the frame source and leaves the iterator as it was
\* before the pull (nothing pending, not done), so that the following pulls
\* emit what they would have emitted without the failed frame; and iteration
\* ends only by a pull that finds the frame source exhausted.
C19_ErrorsAreLocal ==
    /\ [][ErrorPull =>
             /\ pending_events = <<>>
             /\ pending_events' = pending_events
             /\ signal_db' = signal_db
             /\ ~done']_vars
    /\ [][(done' /\ ~done) =>
             /\ pending_events = <<>>
             /\ pulled' = pulled
             /\ returned' = returned]_vars

\* an error from decoding a frame, returned after an earlier frame
C19_Witness ==
    /\ pulled > 1
    /\ frame # NoFrame
    /\ returned = <<ErrorItem("InvalidData")>>
    /\ pending_events = <<>>
    /\ ~done

----------------------------------------------------------------------------
(* BLF objects: vendor/ablf/src/lib.rs.  A stream (the file after its       *)
(* statistics header, or the payload of a log container) is a sequence of   *)
(* tokens: a byte of the magic "LOBJ", any other byte ("X"), or the body of *)
(* an object, which stands for all the bytes that follow the magic (the     *)
(* base header and `data`).  Positions are byte offsets, starting at 0.     *)

\* the cap on consecutive BadMagic errors
MaxBadMagic == 1000

Byte(k) == [kind |-> k]

Magic == <<Byte("L"), Byte("O"), Byte("B"), Byte("J")>>

\* the bytes after the magic of an object whose base header reads
\* object_type and whose object_size leaves remaining_size bytes to `data`
Body(object_type, remaining_size, id, valid_data_bytes, data, compression_method, inflates) ==
    [kind |-> "body", object_type |-> object_type, remaining_size |-> remaining_size,
     id |-> id, valid_data_bytes |-> valid_data_bytes, data |-> data,
     compression_method |-> compression_method, inflates |-> inflates]

\* the variant the derived reader of ObjectTypes chooses for an object_type
ObjectTypes(object_type) ==
    IF object_type = 86 THEN "CanMessage86"
    ELSE IF object_type = 73 THEN "CanErrorExt73"
    ELSE IF object_type = 100 THEN "CanFdMessage100"
    ELSE IF object_type = 101 THEN "CanFdMessage64"
    ELSE IF object_type = 10 THEN "LogContainer10"
    ELSE IF object_type = 65 THEN "AppText65"
    ELSE IF object_type \in ({72, 6, 7, 8, 9, 90, 96, 92} \cup (20..64) \cup (66..71)
                             \cup (74..85) \cup {91, 93, 94, 95, 97, 98, 99}
                             \cup (102..125))
         THEN "UnsupportedPadded"
    ELSE "Unsupported"

MagicAt(data, pos) == \A k \in 1..Len(Magic) : data[pos + k] = Magic[k]

\* the magic of Object cannot be read for lack of bytes
MagicEof(data, pos) == pos + Len(Magic) > Len(data)

\* Object::read at `pos` fails with BadMagic
BadMagicAt(data, pos) == ~MagicEof(data, pos) /\ ~MagicAt(data, pos)

\* Object::read at offset `pos`; a failed read leaves the position where it was
Object_read(data, pos) ==
    IF MagicEof(data, pos) THEN [tag |-> "Eof"]
    ELSE IF ~MagicAt(data, pos) THEN [tag |-> "BadMagic"]
    \* the stream ends inside the object: UnexpectedEof, or NoVariantMatch
    \* when it ends inside `data` (return_unexpected_error)
    ELSE IF pos + Len(Magic) + 1 > Len(data) THEN [tag |-> "Truncated"]
    ELSE LET obj == data[pos + Len(Magic) + 1] IN
         \* a header that announces more bytes than the stream holds
         IF obj.kind # "body" THEN [tag |-> "Truncated"]
         \* assert(remaining_size>0) of the two Unsupported variants
         ELSE IF /\ ObjectTypes(obj.object_type) \in {"UnsupportedPadded", "Unsupported"}
                 /\ obj.remaining_size = 0
              THEN [tag |-> "AssertFail"]
         ELSE [tag |-> "Ok", obj |-> obj, pos |-> pos + Len(Magic) + 1]

\* the first offset from `pos` on at which Object::read does not fail with BadMagic
EndOfBadMagic(data, pos) ==
    LET stops == {p \in pos..(Len(data) + 1) : ~BadMagicAt(data, p)}
    IN  CHOOSE p \in stops : \A q \in stops : p <= q

\* The BadMagic arm of both iterators, `self.next()` after `self.next()` until
\* another arm is taken: every failure counts; failure number MaxBadMagic + 1
\* returns None where it stands, every earlier one seeks one byte ahead.
SkipBadMagic(data, pos, consecutive_bad_magic) ==
    LET failures == EndOfBadMagic(data, pos) - pos
        fatal == IF consecutive_bad_magic >= MaxBadMagic THEN 1
                 ELSE MaxBadMagic + 1 - consecutive_bad_magic
    IN  IF failures >= fatal
        THEN [stopped |-> TRUE, pos |-> pos + fatal - 1, skipped |-> fatal - 1,
              consecutive_bad_magic |-> consecutive_bad_magic + fatal]
        ELSE [stopped |-> FALSE, pos |-> pos + failures, skipped |-> failures,
              consecutive_bad_magic |-> consecutive_bad_magic + failures]

\* LogContainerIter::new
LogContainerIter(data) == [data |-> data, pos |-> 0, consecutive_bad_magic |-> 0]

\* LogContainerIter::remaining_data
remaining_data(iter) == SubSeq(iter.data, iter.pos + 1, Len(iter.data))

\* LogContainerIter::next
LogContainerIter_next(iter) ==
    LET AfterSkip(s) ==
            LET AfterRead(r) ==
                    IF r.tag = "Ok"
                    THEN [iter |-> [iter EXCEPT !.pos = r.pos, !.consecutive_bad_magic = 0],
                          item |-> Some(r.obj)]
                    ELSE [iter |-> [iter EXCEPT !.pos = s.pos,
                                        !.consecutive_bad_magic = s.consecutive_bad_magic],
                          item |-> None]
            IN  IF s.stopped
                THEN [iter |-> [iter EXCEPT !.pos = s.pos,
                                     !.consecutive_bad_magic = s.consecutive_bad_magic],
                      item |-> None]
                ELSE AfterRead(Object_read(iter.data, s.pos))
    IN  AfterSkip(SkipBadMagic(iter.data, iter.pos, iter.consecutive_bad_magic))

\* into_iter that leaves the unread tail of the previous container out
LogContainer_into_iter_without_prev(cont, prev_data) ==
    IF cont.compression_method = 0 \/ (cont.compression_method = 2 /\ cont.inflates)
    THEN Some(LogContainerIter(cont.data))
    ELSE None

\* LogContainer::into_iter: Panic for a compression method other than 0 and 2
\* and for a zlib stream that decode_zlib rejects
LogContainer_into_iter(cont, prev_data) ==
    IF cont.compression_method = 0
    THEN Some(LogContainerIter(prev_data \o cont.data))
    ELSE IF cont.compression_method = 2
    THEN IF cont.inflates THEN Some(LogContainerIter(prev_data \o cont.data))
         ELSE None
    ELSE None

\* BlfFile::into_iter of a valid file
BlfFile_into_iter ==
    [is_valid |-> TRUE, pos |-> 0, prev_cont_data |-> <<>>, skipped |-> 0,
     cur_cont_iter |-> None, consecutive_bad_magic |-> 0]

Yield(it, item) == [objects |-> it, item |-> item, panicked |-> FALSE]
Panic(it) == [objects |-> it, item |-> None, panicked |-> TRUE]

\* ObjectIterator::next from the read of the file on
RECURSIVE ObjectIterator_read(_, _)
ObjectIterator_read(it, file) ==
    LET AfterSkip(s) ==
            LET skipped == [it EXCEPT !.pos = s.pos, !.skipped = it.skipped + s.skipped,
                               !.consecutive_bad_magic = s.consecutive_bad_magic]
                AfterRead(r) ==
                    LET read == [skipped EXCEPT !.pos = r.pos, !.consecutive_bad_magic = 0]
                        Unpack(cont_iter) ==
                            LET First(n) ==
                                    IF n.item.some
                                    THEN Yield([read EXCEPT !.cur_cont_iter = Some(n.iter)],
                                               n.item)
                                    ELSE ObjectIterator_read(
                                             [read EXCEPT
                                                 !.prev_cont_data = remaining_data(n.iter),
                                                 !.cur_cont_iter = None], file)
                            IN  IF cont_iter.some THEN First(LogContainerIter_next(cont_iter.val))
                                ELSE Panic(read)
                    IN  IF r.tag # "Ok" THEN Yield(skipped, None)
                        ELSE IF ObjectTypes(r.obj.object_type) = "LogContainer10"
                        THEN Unpack(LogContainer_into_iter(r.obj, read.prev_cont_data))
                        ELSE Yield(read, Some(r.obj))
            IN  IF s.stopped THEN Yield(skipped, None)
                ELSE AfterRead(Object_read(file, s.pos))
    IN  AfterSkip(SkipBadMagic(file, it.pos, it.consecutive_bad_magic))

\* ObjectIterator::next
ObjectIterator_next(it, file) ==
    LET Current(n) ==
            IF n.item.some THEN Yield([it EXCEPT !.cur_cont_iter = Some(n.iter)], n.item)
            ELSE ObjectIterator_read([it EXCEPT !.prev_cont_data = remaining_data(n.iter),
                                                !.cur_cont_iter = None], file)
    IN  IF ~it.is_valid THEN Yield(it, None)
        ELSE IF it.cur_cont_iter.some THEN Current(LogContainerIter_next(it.cur_cont_iter.val))
        ELSE ObjectIterator_read(it, file)

\* the frame BlfFrameIterator::next builds from a CanMessage2 or a CanErrorFrameExt
BlfFrame(obj, is_error_frame) ==
    [can_id |-> obj.id, data |-> obj.data, is_error_frame |-> is_error_frame]

\* BlfFrameIterator::next: the loop over objects.next(); the match builds a
\* frame from CanMessage86 and from CanErrorExt73 and from no other variant
RECURSIVE BlfFrameIterator_next(_, _)
BlfFrameIterator_next(it, file) ==
    LET Match(n) ==
            IF n.panicked \/ ~n.item.some THEN n
            ELSE IF ObjectTypes(n.item.val.object_type) = "CanMessage86"
            THEN Yield(n.objects, Some(BlfFrame(n.item.val, FALSE)))
            ELSE IF ObjectTypes(n.item.val.object_type) = "CanErrorExt73"
            THEN Yield(n.objects, Some(BlfFrame(n.item.val, TRUE)))
            ELSE BlfFrameIterator_next(n.objects, file)
    IN  Match(ObjectIterator_next(it, file))

----------------------------------------------------------------------------
(* BLF files *)

\* a stream of records holds at most MaxRecords records
MaxRecords == 2
\* at most MaxPulls pulls are made on a BLF iterator
MaxPulls == 5

Record(body) == Magic \o <<body>>

CanMessage2(id, data) == Body(86, Len(data) + 1, id, Len(data), data, 0, TRUE)
CanErrorFrameExt(id, data) == Body(73, Len(data) + 1, id, Len(data), data, 0, TRUE)
CanFdMessage100(id, valid_data_bytes, data) ==
    Body(100, Len(data) + 1, id, valid_data_bytes, data, 0, TRUE)
CanFdMessage64(id, valid_data_bytes, data) ==
    Body(101, Len(data) + 1, id, valid_data_bytes, data, 0, TRUE)
AppText(id) == Body(65, 1, id, 0, <<>>, 0, TRUE)
OtherObject(object_type, remaining_size, id) ==
    Body(object_type, remaining_size, id, 0, <<>>, 0, TRUE)
LogContainer(compression_method, inflates, payload) ==
    Body(10, Len(payload) + 1, 0, 0, payload, compression_method, inflates)

Garbage(n) == [k \in 1..n |-> Byte("X")]

\* record number n of a stream: a CAN message or, every other time, an error frame
StreamRecord(n) ==
    IF n % 2 = 1 THEN CanMessage2(n, <<n>>) ELSE CanErrorFrameExt(n, <<n, n>>)

RECURSIVE RecordStream(_)
RecordStream(n) ==
    IF n = 0 THEN <<>> ELSE RecordStream(n - 1) \o Record(StreamRecord(n))

\* a file and what is known of it by construction: the objects of its
\* record stream in stream order, the length of its longest run of bad
\* magic and the objects that lie behind that run
BlfFile(bytes, records, run, behind) ==
    [bytes |-> bytes, records |-> records, run |-> run, behind |-> behind]

\* a record stream cut at offsets a <= b into three consecutive log containers
SplitFile(n, a, b, methods) ==
    LET stream == RecordStream(n) IN
    BlfFile(Record(LogContainer(methods[1], TRUE, SubSeq(stream, 1, a)))
              \o Record(LogContainer(methods[2], TRUE, SubSeq(stream, a + 1, b)))
              \o Record(LogContainer(methods[3], TRUE, SubSeq(stream, b + 1, Len(stream)))),
            [k \in 1..n |-> StreamRecord(k)], 0, <<>>)

CompressionMethods == {<<0, 0, 0>>, <<2, 0, 2>>}

SplitFiles ==
    UNION {UNION {{SplitFile(n, a, b, m) : b \in a..Len(RecordStream(n)),
                                           m \in CompressionMethods} :
                     a \in 0..Len(RecordStream(n))} :
              n \in 1..MaxRecords}

\* runs of bad magic just below, at and just above the cap
BadMagicRuns == {MaxBadMagic - 1, MaxBadMagic, MaxBadMagic + 1}

\* a run of bad magic before a record at file level; inside a log container
\* that ends the file; inside a log container that another container follows
GarbageFiles ==
    UNION {{BlfFile(Garbage(n) \o Record(StreamRecord(1)),
                    <<StreamRecord(1)>>, n, <<StreamRecord(1)>>),
            BlfFile(Record(LogContainer(0, TRUE, Garbage(n) \o Record(StreamRecord(1)))),
                    <<StreamRecord(1)>>, n, <<StreamRecord(1)>>),
            BlfFile(Record(LogContainer(0, TRUE, Garbage(n) \o Record(StreamRecord(1))))
                      \o Record(LogContainer(0, TRUE, Record(StreamRecord(2)))),
                    <<StreamRecord(1), StreamRecord(2)>>, n,
                    <<StreamRecord(1), StreamRecord(2)>>)} :
              n \in BadMagicRuns}

ObjectFiles == SplitFiles \cup GarbageFiles

----------------------------------------------------------------------------
(* SpecObjects: pulls on the ObjectIterator of a BLF file *)

InitObjects ==
    /\ arg \in ObjectFiles
    /\ res = Unset
    /\ objects = BlfFile_into_iter
    /\ yielded = <<>>
    /\ DecoderIdle

\* ObjectIterator::next
ObjectNext ==
    /\ Len(yielded) < MaxPulls
    /\ \E n \in {ObjectIterator_next(objects, arg.bytes)} :
          /\ ~n.panicked
          /\ objects' = n.objects
          /\ res' = n.item
          /\ yielded' = Append(yielded, n.item)
    /\ UNCHANGED <<arg, DecoderVars>>

NextObjects == ObjectNext

SpecObjects == InitObjects /\ [][NextObjects]_vars

----------------------------------------------------------------------------
(* Claims about the ObjectIterator *)

\* the objects the pulls have yielded so far, in order
YieldedObjects ==
    LET some == SelectSeq(yielded, LAMBDA item : item.some)
    IN  [k \in 1..Len(some) |-> some[k].val]

IsBehindRun(obj) == \E k \in 1..Len(arg.behind) : arg.behind[k] = obj

\* once a pull has returned None, every later pull has returned None
StaysDone ==
    \A k \in 1..Len(yielded) : \A j \in k..Len(yielded) :
        ~yielded[k].some => ~yielded[j].some

\* C15: a run of MaxBadMagic consecutive bad-magic failures, at file level or
\* inside a decompressed log container, aborts the iterator: no record that
\* lies behind the run is ever yielded, and once a pull has returned done
\* every later pull returns done.
C15_BadMagicCap ==
    arg.run >= MaxBadMagic =>
        /\ \A k \in 1..Len(yielded) : yielded[k].some => ~IsBehindRun(yielded[k].val)
        /\ StaysDone

IsPrefix(s, t) == Len(s) <= Len(t) /\ SubSeq(t, 1, Len(s)) = s

\* a pull has returned None
ReturnedDone == \E k \in 1..Len(yielded) : ~yielded[k].some

\* the payload of the first log container of a split file ends inside a record
Straddles ==
    Len(arg.bytes[Len(Magic) + 1].data) % Len(Record(StreamRecord(1))) # 0

\* C16: for every split of a valid record stream across consecutive log
\* containers, a record that straddles two containers included, the iterator
\* yields every record exactly once and in stream order: what has been
\* yielded is always a prefix of the stream, and the whole stream once a pull
\* has returned done.
C16_SpliceKeepsRecords ==
    arg \in SplitFiles =>
        /\ IsPrefix(YieldedObjects, arg.records)
        /\ ReturnedDone => YieldedObjects = arg.records

C16_Witness ==
    /\ arg \in SplitFiles
    /\ Straddles
    /\ Len(arg.records) > 1
    /\ ReturnedDone
    /\ YieldedObjects = arg.records

----------------------------------------------------------------------------
(* SpecBlf: pulls on the BlfFrameIterator of a BLF file *)

\* the thread has panicked inside a pull
Panicked == [panicked |-> TRUE]

\* the objects a file is made of: the CAN records, the records the frame
\* iterator passes over, an object whose size leaves nothing to `data`, and
\* log containers: uncompressed, of an unknown compression method, and with a
\* zlib stream that does not inflate
FileObjects ==
    {CanMessage2(1, <<1>>), CanErrorFrameExt(2, <<2, 2>>),
     CanFdMessage100(3, 1, <<3, 0>>), CanFdMessage64(4, 2, <<4, 4>>),
     AppText(5), OtherObject(115, 1, 6), OtherObject(126, 1, 7), OtherObject(126, 0, 8),
     LogContainer(0, TRUE, Record(CanMessage2(9, <<9>>))),
     LogContainer(1, TRUE, Record(CanMessage2(10, <<1>>))),
     LogContainer(2, FALSE, Record(CanMessage2(11, <<1>>)))}

RECURSIVE Records(_)
Records(objs) == IF objs = <<>> THEN <<>> ELSE Record(Head(objs)) \o Records(Tail(objs))

\* files of up to MaxRecords objects, at file level or inside one log container
FrameFiles ==
    UNION {{BlfFile(Records(objs), objs, 0, <<>>),
            BlfFile(Record(LogContainer(0, TRUE, Records(objs))), objs, 0, <<>>)} :
              objs \in SeqsUpTo(FileObjects, MaxRecords) \ {<<>>}}

InitBlf ==
    /\ arg \in FrameFiles
    /\ res = Unset
    /\ objects = BlfFile_into_iter
    /\ yielded = <<>>
    /\ DecoderIdle

\* BlfFrameIterator::next
BlfNext ==
    /\ res # Panicked
    /\ Len(yielded) < MaxPulls
    /\ \E n \in {BlfFrameIterator_next(objects, arg.bytes)} :
          /\ objects' = n.objects
          /\ res' = IF n.panicked THEN Panicked ELSE n.item
          /\ yielded' = IF n.panicked THEN yielded ELSE Append(yielded, n.item)
    /\ UNCHANGED <<arg, DecoderVars>>

NextBlf == BlfNext

SpecBlf == InitBlf /\ [][NextBlf]_vars

----------------------------------------------------------------------------
(* Claims about the BlfFrameIterator *)

IsCanFd(obj) == ObjectTypes(obj.object_type) \in {"CanFdMessage100", "CanFdMessage64"}

IsCanRecord(obj) ==
    IsCanFd(obj) \/ ObjectTypes(obj.object_type) \in {"CanMessage86", "CanErrorExt73"}

\* the file has nothing but CAN records
OnlyCanRecords == \A k \in 1..Len(arg.records) : IsCanRecord(arg.records[k])

\* the first valid_data_bytes bytes of the data of a CAN-FD record
ValidData(obj) == SubSeq(obj.data, 1, obj.valid_data_bytes)

\* C17: every record of object type 100 or 101 the frame iterator reads yields
\* one frame whose payload is the record's valid data bytes: once a file of
\* CAN records is read to its end, each such record has its frame among the
\* yielded ones.
C17_CanFdFramesYielded ==
    (OnlyCanRecords /\ res = None) =>
        \A k \in 1..Len(arg.records) :
            IsCanFd(arg.records[k]) =>
                \E j \in 1..Len(yielded) :
                    /\ yielded[j].some
                    /\ yielded[j].val.can_id = arg.records[k].id
                    /\ yielded[j].val.data = ValidData(arg.records[k])

\* C20: no content of the file makes a pull panic, a log container with a
\* compression method other than 0 and 2 or with a zlib stream that fails to
\* decompress included.
C20_NeverPanics == res # Panicked

----------------------------------------------------------------------------
(* SpecDatabase: add_message calls on a new SignalDatabase; arg is the      *)
(* sequence of the messages added so far                                    *)

\* at most MaxAdds messages are added
MaxAdds == 3

MessageIds == {512, 513}
MessageSources == {"a.dbc", "b.dbc", "system.arxml"}

\* a message definition as a file `source` gives it for `id`
SourceMessage(id, source) ==
    [id |-> id, name |-> "Msg_" \o source, size |-> 8, sender |-> None,
     signals |-> <<PlainSignal("Sig_" \o source, 0, 8, "LittleEndian", "Unsigned")>>,
     is_multiplexed |-> FALSE, multiplexer_signal |-> None, source |-> source]

SourceMessages == {SourceMessage(id, source) : id \in MessageIds, source \in MessageSources}

InitDatabase ==
    /\ arg = <<>>
    /\ res = Unset
    /\ IteratorIdle

\* SignalDatabase::add_message
AddMessage ==
    /\ Len(arg) < MaxAdds
    /\ \E message \in SourceMessages :
          /\ signal_db' = add_message(signal_db, message)
          /\ arg' = Append(arg, message)
    /\ UNCHANGED <<res, frame, pending_events, frame_events, returned, pulled, done, BlfVars>>

NextDatabase == AddMessage

SpecDatabase == InitDatabase /\ [][NextDatabase]_vars

----------------------------------------------------------------------------
(* Claims about the signal database *)

\* the messages added with `id`, in the order of the calls
AddedWith(id) == SelectSeq(arg, LAMBDA message : message.id = id)

\* the ids of the messages and an id no message has
QueriedIds == MessageIds \cup {2047}

\* C18: after any sequence of add_message calls, get_message(id) returns the
\* definition added first among those with that id and get_messages(id)
\* returns all of them in insertion order; a later add never changes the
\* result of get_message for an id that already had a definition.
C18_FirstAddedWins ==
    /\ [](\A id \in QueriedIds :
             IF AddedWith(id) = <<>>
             THEN get_message(signal_db, id) = None /\ get_messages(signal_db, id) = None
             ELSE /\ get_message(signal_db, id) = Some(AddedWith(id)[1])
                  /\ get_messages(signal_db, id) = Some(AddedWith(id)))
    /\ [][\A id \in MessageIds :
             get_message(signal_db, id).some =>
                 get_message(signal_db', id) = get_message(signal_db, id)]_vars

C18_Witness ==
    \E id \in MessageIds :
        /\ Len(AddedWith(id)) > 1
        /\ AddedWith(id)[1] # AddedWith(id)[2]
        /\ get_message(signal_db, id) = Some(arg[1])
        /\ Len(arg) > Len(AddedWith(id))

----------------------------------------------------------------------------
(* SpecArxml: parse_container_i_pdu applied to a CONTAINER-I-PDU with its   *)
(* LENGTH, its HEADER-TYPE and the I-PDUs it refers to                      *)

ContainerElements ==
    {[name |-> "Container", length |-> len, header_type |-> ht, refs |-> refs] :
        len \in ContainerLengths, ht \in HeaderTypes \cup {"NONE"}, refs \in ContainerRefs}

InitArxml ==
    /\ arg \in ContainerElements
    /\ res = Unset
    /\ IteratorIdle

\* ArxmlParser::parse_container_i_pdu
ParseContainer ==
    /\ res = Unset
    /\ res' = parse_container_i_pdu(arg.name, 256, arg.length, arg.header_type, arg.refs)
    /\ UNCHANGED <<arg, IteratorVars>>

NextArxml == ParseContainer

SpecArxml == InitArxml /\ [][NextArxml]_vars

----------------------------------------------------------------------------
(* Claims about the ARXML loader *)

RECURSIVE SumOfSizes(_, _)
SumOfSizes(pdus, n) == IF n = 0 THEN 0 ELSE SumOfSizes(pdus, n - 1) + pdus[n].size

\* each position is the sum of the sizes of the PDUs before it
Sequential(pdus) == \A k \in 1..Len(pdus) : pdus[k].position = SumOfSizes(pdus, k - 1)

\* C21: every Static container definition the ARXML loader produces has its
\* contained PDUs laid out sequentially from offset 0, and every listed PDU
\* ends within the container's declared length.
C21_StaticLayoutWithinLength ==
    (res # Unset /\ res.container_type = "Static") =>
        /\ Sequential(res.layout.pdus)
        /\ \A k \in 1..Len(res.layout.pdus) :
              res.layout.pdus[k].position + res.layout.pdus[k].size <= arg.length

----------------------------------------------------------------------------
(* SpecLoader: the converters that build a message definition, applied to a *)
(* message of a DBC file or to a MULTIPLEXED-I-PDU of an ARXML file         *)

\* the dynamic part signals of parse_multiplexed_i_pdu: every signal of the
\* alternative gets the selector value of the alternative
RECURSIVE DynamicPartSignals(_, _, _)
DynamicPartSignals(dynamic_parts, multiplexer_signal_name, i) ==
    IF i > Len(dynamic_parts) THEN <<>>
    ELSE [k \in 1..Len(dynamic_parts[i].signals) |->
             [dynamic_parts[i].signals[k] EXCEPT
                 !.multiplexer_info =
                     Some([multiplexer_signal |-> multiplexer_signal_name,
                           multiplexer_values |-> <<dynamic_parts[i].selector_value>>])]]
         \o DynamicPartSignals(dynamic_parts, multiplexer_signal_name, i + 1)

\* ArxmlParser::parse_multiplexed_i_pdu for a PDU whose CAN id is resolved:
\* the selector signal, the signals of the static part, the gated signals of
\* the dynamic part alternatives
parse_multiplexed_i_pdu(name, can_id, selector_start, selector_length, static_signals, dynamic_parts) ==
    LET multiplexer_signal_name == name \o "_selector"
        signals == <<PlainSignal(multiplexer_signal_name, selector_start, selector_length,
                                 "LittleEndian", "Unsigned")>>
                   \o static_signals
                   \o DynamicPartSignals(dynamic_parts, multiplexer_signal_name, 1)
    IN  IF signals = <<>> THEN None
        ELSE Some([id |-> can_id, name |-> name, size |-> 10, sender |-> None,
                   signals |-> signals, is_multiplexed |-> TRUE,
                   multiplexer_signal |-> Some(multiplexer_signal_name),
                   source |-> "system.arxml"])

\* the signals parse_signal_mappings finds in the I-PDUs a part refers to
PartSignals ==
    {<<>>, <<PlainSignal("PartA", 8, 8, "LittleEndian", "Unsigned")>>,
     <<PlainSignal("PartB", 8, 4, "LittleEndian", "Signed"),
       PlainSignal("PartC", 16, 8, "BigEndian", "Unsigned")>>}

\* DYNAMIC-PART-ALTERNATIVEs: SELECTOR-FIELD-CODE and the signals of the I-PDU
DynamicParts ==
    SeqsUpTo([selector_value : 0..1, signals : PartSignals], MaxSignals - 1)

MultiplexedIPdus ==
    {[kind |-> "arxml", name |-> "MuxPdu", static_signals |-> s, dynamic_parts |-> d] :
        s \in PartSignals, d \in DynamicParts}

LoaderInputs == {[kind |-> "dbc", dbc_msg |-> m] : m \in DbcMessages} \cup MultiplexedIPdus

InitLoader ==
    /\ arg \in LoaderInputs
    /\ res = Unset
    /\ IteratorIdle

\* convert_message, Ok(definition) as Some(definition) and Err as None
ConvertMessage ==
    /\ res = Unset
    /\ arg.kind = "dbc"
    /\ \E r \in {convert_message(arg.dbc_msg, "test.dbc")} :
          res' = IF r.ok THEN Some(r.val) ELSE None
    /\ UNCHANGED <<arg, IteratorVars>>

\* ArxmlParser::parse_multiplexed_i_pdu
ParseMultiplexedIPdu ==
    /\ res = Unset
    /\ arg.kind = "arxml"
    /\ res' = parse_multiplexed_i_pdu(arg.name, 513, 0, 8, arg.static_signals,
                                      arg.dynamic_parts)
    /\ UNCHANGED <<arg, IteratorVars>>

NextLoader == ConvertMessage \/ ParseMultiplexedIPdu

SpecLoader == InitLoader /\ [][NextLoader]_vars

----------------------------------------------------------------------------
(* Claims about the loaders *)

Produced == res # Unset /\ res.some

\* the signals of the definition that carry the name multiplexer_signal gives
NamedMultiplexers(message_def) ==
    IF ~message_def.multiplexer_signal.some THEN {}
    ELSE {k \in 1..Len(message_def.signals) :
             message_def.signals[k].name = message_def.multiplexer_signal.val}

\* C22: every message definition the DBC loader or the ARXML loader produces
\* has is_multiplexed true if and only if one of its signals has a multiplexer
\* gate; when it is true exactly one signal is the multiplexer, the one that
\* multiplexer_signal names, it is ungated, and every gated signal has a
\* non-empty set of activating values and refers to it.
C22_MultiplexedFlag ==
    Produced =>
        /\ res.val.is_multiplexed <=> (\E s \in SignalsOf(res.val) : Gated(s))
        /\ res.val.is_multiplexed =>
              /\ Cardinality(NamedMultiplexers(res.val)) = 1
              /\ \A k \in NamedMultiplexers(res.val) : ~Gated(res.val.signals[k])
              /\ \A s \in SignalsOf(res.val) :
                    Gated(s) => /\ Activating(s) # {}
                                /\ s.multiplexer_info.val.multiplexer_signal
                                     = res.val.multiplexer_signal.val

----------------------------------------------------------------------------
(* SpecFiles: Decoder::add_dbc and Decoder::add_arxml applied to a file, then
   one frame decoded against the database they leave *)

\* at most MaxFileItems messages in a DBC file, elements in an ARXML file
MaxFileItems == 2

\* Ok(()) of a load
OkUnit == [ok |-> TRUE]

\* the conversion loop of parse_dbc_file from message i on
RECURSIVE ConvertMessages(_, _, _, _)
ConvertMessages(dbc_messages, source_filename, i, messages) ==
    IF i > Len(dbc_messages) THEN [ok |-> TRUE, val |-> messages]
    ELSE LET message == convert_message(dbc_messages[i], source_filename)
         IN IF ~message.ok THEN message
            ELSE ConvertMessages(dbc_messages, source_filename, i + 1,
                                 Append(messages, message.val))

\* parse_dbc_file(path) -> Result<Vec<MessageDefinition>>: the file is read,
\* parsed by can_dbc, and its messages converted; its VAL_ records are not read
parse_dbc_file(file) ==
    IF ~file.readable THEN Err("DbcParseError")
    ELSE IF ~file.parses THEN Err("DbcParseError")
    ELSE ConvertMessages(file.messages, file.name, 1, <<>>)

\* the element loop of ArxmlParser::parse from element i on: a definition is
\* pushed, an element is skipped, a failing element is logged and passed over
RECURSIVE ParseElements(_, _, _, _)
ParseElements(elements, i, messages, containers) ==
    IF i > Len(elements) THEN <<messages, containers>>
    ELSE LET element == elements[i]
             parsed == element.parsed.ok /\ element.parsed.val.some
         IN IF parsed /\ element.element_name \in {"ISignalIPdu", "MultiplexedIPdu"}
            THEN ParseElements(elements, i + 1,
                               Append(messages, element.parsed.val.val), containers)
            ELSE IF parsed /\ element.element_name = "ContainerIPdu"
            THEN ParseElements(elements, i + 1, messages,
                               Append(containers, element.parsed.val.val))
            ELSE ParseElements(elements, i + 1, messages, containers)

\* parse_arxml_file(path) -> Result<(Vec<MessageDefinition>, Vec<ContainerDefinition>)>
parse_arxml_file(file) ==
    IF ~file.exists THEN Err("ArxmlParseError")
    ELSE IF ~file.loads THEN Err("ArxmlParseError")
    ELSE [ok |-> TRUE, val |-> ParseElements(file.elements, 1, <<>>, <<>>)]

\* what a load hands back and the database it leaves
Loaded(result, db) == [result |-> result, db |-> db]

\* an add_dbc that adds each message as soon as it is converted
RECURSIVE AddAsConverted(_, _, _, _)
AddAsConverted(db, dbc_messages, source_filename, i) ==
    IF i > Len(dbc_messages) THEN Loaded(OkUnit, db)
    ELSE LET message == convert_message(dbc_messages[i], source_filename)
         IN IF ~message.ok THEN Loaded(Err(message.err), db)
            ELSE AddAsConverted(add_message(db, message.val), dbc_messages,
                                source_filename, i + 1)

add_dbc_as_converted(db, file) ==
    IF ~file.readable \/ ~file.parses THEN Loaded(Err("DbcParseError"), db)
    ELSE AddAsConverted(db, file.messages, file.name, 1)

\* Decoder::add_dbc(path) -> Result<()>
Decoder_add_dbc(db, file) ==
    LET messages == parse_dbc_file(file)
    IN IF ~messages.ok THEN Loaded(Err(messages.err), db)
       ELSE Loaded(OkUnit, AddMessages(db, messages.val))

\* Decoder::add_arxml(path) -> Result<()>
Decoder_add_arxml(db, file) ==
    LET parsed == parse_arxml_file(file)
    IN IF ~parsed.ok THEN Loaded(Err(parsed.err), db)
       ELSE Loaded(OkUnit, AddContainers(AddMessages(db, parsed.val[1]), parsed.val[2]))

RECURSIVE SumSignals(_)
SumSignals(msgs) ==
    IF msgs = <<>> THEN 0 ELSE Len(Head(msgs).signals) + SumSignals(Tail(msgs))

RECURSIVE SumOverIds(_, _, _)
SumOverIds(messages, ids, signals) ==
    IF ids = {} THEN 0
    ELSE LET id == CHOOSE x \in ids : TRUE
         IN (IF signals THEN SumSignals(messages[id]) ELSE Len(messages[id]))
            + SumOverIds(messages, ids \ {id}, signals)

\* SignalDatabase::stats
stats(db) ==
    [num_messages |-> SumOverIds(db.messages, DOMAIN db.messages, FALSE),
     num_signals |-> SumOverIds(db.messages, DOMAIN db.messages, TRUE),
     num_containers |-> Cardinality(DOMAIN db.containers)]

\* the messages of the DBC files: a plain one, a multiplexed one, and one whose
\* gated signal has no multiplexer, which convert_message rejects
StatusMessage ==
    DbcMessage(512, "Status",
               <<DbcSignal("Flag", 0, 1, "LittleEndian", "Unsigned", Plain),
                 DbcSignal("Level", 8, 8, "LittleEndian", "Unsigned", Plain)>>)

ModeMessage ==
    DbcMessage(513, "Modes",
               <<DbcSignal("Mode", 0, 8, "LittleEndian", "Unsigned", Multiplexor),
                 DbcSignal("SignalA", 8, 8, "LittleEndian", "Unsigned", MultiplexedSignal(0))>>)

OrphanMessage ==
    DbcMessage(514, "Orphan",
               <<DbcSignal("SignalA", 8, 8, "LittleEndian", "Unsigned", MultiplexedSignal(0))>>)

\* VAL_ 512 Level 0 "Off" 1 "On" ;
LevelLabels == [raw \in {0, 1} |-> IF raw = 0 THEN "Off" ELSE "On"]

ValueDescriptions ==
    {<<>>, <<[message_id |-> 512, signal_name |-> "Level", table |-> LevelLabels]>>}

DbcFileInputs ==
    {[kind |-> "dbc", name |-> "test.dbc", readable |-> rd, parses |-> ps, messages |-> ms,
      value_descriptions |-> vd] :
        rd \in BOOLEAN, ps \in BOOLEAN,
        ms \in SeqsUpTo({StatusMessage, ModeMessage, OrphanMessage}, MaxFileItems),
        vd \in ValueDescriptions}

\* the elements of the ARXML files with what their parse function returns
ArxmlElements ==
    {[element_name |-> "ISignalIPdu", parsed |-> [ok |-> TRUE, val |-> Some(PduMessage("PduA"))]],
     [element_name |-> "ISignalIPdu", parsed |-> [ok |-> TRUE, val |-> None]],
     [element_name |-> "MultiplexedIPdu", parsed |-> Err("ArxmlParseError")],
     [element_name |-> "ContainerIPdu",
      parsed |-> [ok |-> TRUE,
                  val |-> Some(parse_container_i_pdu("Static", 256, 2, "NONE",
                                                     <<[name |-> "PduA", size |-> 1]>>))]],
     [element_name |-> "ContainerIPdu",
      parsed |-> [ok |-> TRUE,
                  val |-> Some(parse_container_i_pdu("Dynamic", 256, 8, "SHORT-HEADER",
                                                     <<[name |-> "PduA", size |-> 1]>>))]]}

ArxmlFileInputs ==
    {[kind |-> "arxml", name |-> "system.arxml", exists |-> ex, loads |-> ld, elements |-> es] :
        ex \in BOOLEAN, ld \in BOOLEAN, es \in SeqsUpTo(ArxmlElements, MaxFileItems)}

\* the database before the load: empty, or holding definitions of an earlier file
EarlierDb ==
    add_container(
        add_message(new_database,
                    [id |-> 512, name |-> "Earlier", size |-> 8, sender |-> None,
                     signals |-> <<PlainSignal("Level", 0, 8, "LittleEndian", "Unsigned")>>,
                     is_multiplexed |-> FALSE, multiplexer_signal |-> None,
                     source |-> "earlier.dbc"]),
        parse_container_i_pdu("Earlier", 256, 2, "NONE", <<[name |-> "PduB", size |-> 1]>>))

FileFrames ==
    {CanFrame(1000, 0, id, d, FALSE) : id \in {512, 513}, d \in SeqsOfLen({0, 1}, 2)}

InitFiles ==
    /\ arg \in {[file |-> f, db |-> db] :
                   f \in DbcFileInputs \cup ArxmlFileInputs, db \in {new_database, EarlierDb}}
    /\ res = Unset
    /\ signal_db = arg.db
    /\ frame = NoFrame
    /\ pending_events = <<>>
    /\ frame_events = <<>>
    /\ returned = <<>>
    /\ pulled = 0
    /\ done = FALSE
    /\ BlfIdle

\* Decoder::add_dbc
AddDbc ==
    /\ res = Unset
    /\ arg.file.kind = "dbc"
    /\ \E loaded \in {Decoder_add_dbc(signal_db, arg.file)} :
          /\ res' = loaded.result
          /\ signal_db' = loaded.db
    /\ UNCHANGED <<arg, frame, pending_events, frame_events, returned, pulled, done, BlfVars>>

\* Decoder::add_arxml
AddArxml ==
    /\ res = Unset
    /\ arg.file.kind = "arxml"
    /\ \E loaded \in {Decoder_add_arxml(signal_db, arg.file)} :
          /\ res' = loaded.result
          /\ signal_db' = loaded.db
    /\ UNCHANGED <<arg, frame, pending_events, frame_events, returned, pulled, done, BlfVars>>

\* process_frame on a frame of the log, after the load
ProcessFrame ==
    /\ res # Unset
    /\ frame = NoFrame
    /\ \E f \in FileFrames :
          \E p \in {process_frame(pending_events, f, signal_db)} :
             /\ frame' = f
             /\ pending_events' = p.pending
             /\ returned' = IF p.item.some THEN <<p.item.val>> ELSE <<>>
    /\ UNCHANGED <<arg, res, signal_db, frame_events, pulled, done, BlfVars>>

NextFiles == AddDbc \/ AddArxml \/ ProcessFrame

SpecFiles == InitFiles /\ [][NextFiles]_vars

\* the signals of the loaded file that a VAL_ record names
DescribedSignals(vd) ==
    {s \in UNION {{m.signals[k] : k \in 1..Len(m.signals)} :
                     m \in {signal_db.messages[vd.message_id][j] :
                               j \in 1..Len(signal_db.messages[vd.message_id])}} :
        s.name = vd.signal_name}

\* C23: after add_dbc of a file with a VAL_ record for a signal, into an empty
\* database, the signal's definition carries the record's raw-value-to-label
\* table, and a decoded signal whose raw value is in the table carries the label
C23_ValueLabelsAttached ==
    (res # Unset /\ res.ok /\ arg.file.kind = "dbc" /\ arg.db = new_database) =>
        \A n \in 1..Len(arg.file.value_descriptions) :
           \E vd \in {arg.file.value_descriptions[n]} :
              vd.message_id \in DOMAIN signal_db.messages =>
                 /\ \A s \in DescribedSignals(vd) : s.value_table = Some(vd.table)
                 /\ \A e \in 1..Len(returned) :
                       (returned[e].kind = "Message" /\ returned[e].can_id = vd.message_id) =>
                          \A k \in 1..Len(returned[e].signals) :
                             \E d \in {returned[e].signals[k]} :
                                (d.name = vd.signal_name /\ d.raw_value \in DOMAIN vd.table) =>
                                   d.value_description = Some(vd.table[d.raw_value])

\* the message definitions the parser returns for a file that loads, in order
ParsedMessages(file) ==
    IF file.kind = "dbc"
    THEN [k \in 1..Len(file.messages) |-> convert_message(file.messages[k], file.name).val]
    ELSE LET pushed == SelectSeq(file.elements,
                           LAMBDA el : /\ el.element_name # "ContainerIPdu"
                                       /\ el.parsed.ok /\ el.parsed.val.some)
         IN [k \in 1..Len(pushed) |-> pushed[k].parsed.val.val]

\* the container definitions the parser returns for a file that loads, in order
ParsedContainers(file) ==
    IF file.kind = "dbc" THEN <<>>
    ELSE LET pushed == SelectSeq(file.elements,
                           LAMBDA el : /\ el.element_name = "ContainerIPdu"
                                       /\ el.parsed.ok /\ el.parsed.val.some)
         IN [k \in 1..Len(pushed) |-> pushed[k].parsed.val.val]

MessagesOf(db, can_id) == IF can_id \in DOMAIN db.messages THEN db.messages[can_id] ELSE <<>>

WithId(defs, id) == SelectSeq(defs, LAMBDA def : def.id = id)

\* the load of this step returned
LoadReturns == res = Unset /\ res' # Unset

\* every parsed definition is in the database: the messages behind those the id
\* had, in parser order, and for each container id the last container parsed
AllAdded(before, after, file) ==
    /\ \A id \in (DOMAIN before.messages) \cup (DOMAIN after.messages)
                 \cup {ParsedMessages(file)[k].id : k \in 1..Len(ParsedMessages(file))} :
          MessagesOf(after, id) = MessagesOf(before, id) \o WithId(ParsedMessages(file), id)
    /\ \A id \in (DOMAIN before.containers) \cup (DOMAIN after.containers)
                 \cup {ParsedContainers(file)[k].id : k \in 1..Len(ParsedContainers(file))} :
          \E cs \in {WithId(ParsedContainers(file), id)} :
             get_container(after, id) =
                IF cs = <<>> THEN get_container(before, id) ELSE Some(cs[Len(cs)])

\* C29: a load that returns an error leaves the signal database, and its
\* statistics, as they were; a load that succeeds has added every definition the
\* parser returned, in parser order
C29_AllOrNothing ==
    [][LoadReturns =>
          IF res'.ok THEN AllAdded(signal_db, signal_db', arg.file)
          ELSE signal_db' = signal_db /\ stats(signal_db') = stats(signal_db)]_vars

\* a load failed on a file whose first message converts, on a database that
\* holds definitions
C29_Witness ==
    /\ res # Unset /\ ~res.ok
    /\ arg.file.kind = "dbc" /\ arg.file.readable /\ arg.file.parses
    /\ Len(arg.file.messages) = 2
    /\ convert_message(arg.file.messages[1], arg.file.name).ok
    /\ arg.db = EarlierDb
    /\ stats(signal_db).num_messages = 1

----------------------------------------------------------------------------
(* The carry-over of the ObjectIterator *)

\* the bytes hold a complete record at some offset
HoldsRecord(bytes) == \E p \in 0..Len(bytes) : Object_read(bytes, p).tag = "Ok"

\* C24: the bytes carried over from a finished log container to the next are
\* the fragment behind the container's last complete record: they are fewer
\* than the bytes of one record and hold no complete record
C24_CarryOverIsFragment ==
    /\ Len(objects.prev_cont_data) < Len(Record(StreamRecord(1)))
    /\ ~HoldsRecord(objects.prev_cont_data)

----------------------------------------------------------------------------
(* SpecDecodeFile: Decoder::decode_file called with a DecoderConfig, and the
   pulls on the iterator it returns *)

\* DecoderConfig::should_process_channel
should_process_channel(config, channel) ==
    IF config.channel_filter.some THEN channel \in config.channel_filter.val ELSE TRUE

\* DecoderConfig::should_process_message
should_process_message(config, can_id) ==
    IF config.message_filter.some THEN can_id \in config.message_filter.val ELSE TRUE

\* DecoderConfig::should_process_frame
should_process_frame(config, channel, can_id) ==
    should_process_channel(config, channel) /\ should_process_message(config, can_id)

\* DecoderConfig::new() with with_channel_filter and with_message_filter
DecoderConfigs ==
    {[channel_filter |-> cf, message_filter |-> mf] :
        cf \in {None, Some({0})}, mf \in {None, Some({512, 768})}}

\* decode_file(path, _config): DecodingIterator::new(frame_iter, &self.signal_db);
\* the configuration is not handed on to the iterator
InitDecodeFile ==
    /\ arg \in DecoderConfigs
    /\ res = Unset
    /\ signal_db = LoadedDb
    /\ frame = NoFrame
    /\ pending_events = <<>>
    /\ frame_events = <<>>
    /\ returned = <<>>
    /\ pulled = 0
    /\ done = FALSE
    /\ BlfIdle

SpecDecodeFile == InitDecodeFile /\ [][Next]_vars

\* C25: the iterator returned by decode_file emits events only for frames for
\* which should_process_frame(channel, can_id) is true under the configuration
\* decode_file was called with
C25_FiltersApplied ==
    (frame # NoFrame /\ (returned # <<>> \/ pending_events # <<>>))
    => should_process_frame(arg, frame.channel, frame.can_id)

\* C26: the iterator goes to the frame source only when no event is waiting,
\* so the events of a frame are returned before the following frame is pulled;
\* the waiting events are events of the frame pulled last, a container frame,
\* none of them returned yet
C26_NoInterleaving ==
    /\ [](/\ pending_events # <<>> => (frame # NoFrame /\ IsContainerId(frame.can_id))
          /\ \A k \in 1..Len(pending_events) :
                /\ \E n \in 1..Len(frame_events) : pending_events[k] = frame_events[n]
                /\ pending_events[k].timestamp = timestamp(frame)
          /\ pending_events # <<>> =>
                Len(returned) + Len(pending_events) = Len(frame_events))
    /\ [][pulled' # pulled => (pending_events = <<>> /\ pulled' = pulled + 1)]_vars

\* the second frame pulled is a container frame; two of its events have been
\* returned and another waits
C26_Witness ==
    /\ pulled = 2
    /\ Len(returned) >= 2
    /\ pending_events # <<>>

\* the messages added with `name`, in the order of the calls
AddedNamed(name) == SelectSeq(arg, LAMBDA message : message.name = name)

\* the names of the messages and a name no message has
QueriedNames == {SourceMessage(512, source).name : source \in MessageSources} \cup {"Nobody"}

\* C27: after any sequence of add_message calls, get_message_by_name(n) returns
\* a definition exactly when a message named n was added, and it is the one
\* added last among those named n
C27_LastNamedWins ==
    \A name \in QueriedNames :
       get_message_by_name(signal_db, name) =
          IF AddedNamed(name) = <<>> THEN None
          ELSE Some(AddedNamed(name)[Len(AddedNamed(name))])

\* a name was added under both CAN ids, last as the second definition of its id
C27_Witness ==
    \E name \in QueriedNames :
       /\ Len(AddedNamed(name)) = 2
       /\ AddedNamed(name)[1].id # AddedNamed(name)[2].id
       /\ arg[Len(arg)].name = name
       /\ Len(AddedWith(arg[Len(arg)].id)) = 2
       /\ AddedWith(arg[Len(arg)].id)[1].name # name

\* the messages added that have a signal called `signal_name`
AddedWithSignal(signal_name) ==
    SelectSeq(arg, LAMBDA message :
                      \E k \in 1..Len(message.signals) : message.signals[k].name = signal_name)

SignalNames ==
    {SourceMessage(512, source).signals[1].name : source \in MessageSources} \cup {"Nothing"}

\* C28: after any sequence of add_message calls, find_signal(name) returns one
\* entry for each added message that has a signal called name, and every
\* returned signal definition has that name
C28_FindSignalByName ==
    \A name \in SignalNames :
       /\ Len(find_signal(signal_db, name)) = Len(AddedWithSignal(name))
       /\ \A k \in 1..Len(find_signal(signal_db, name)) :
             find_signal(signal_db, name)[k][2].name = name

----------------------------------------------------------------------------
(* SpecWalk: the while loops of decode_dynamic_container and
   decode_queued_container, one action for each evaluation of the loop; res
   holds the offset, the number of times the body was entered, and whether
   the loop was left *)

\* the payloads of the walks have at most MaxWalkLen bytes
MaxWalkLen == 8

Walk(offset, iterations, stopped, result) ==
    [offset |-> offset, iterations |-> iterations, stopped |-> stopped, result |-> result]

WalkInputs ==
    {[kind |-> "Dynamic", data |-> d, size |-> header_size] :
        d \in SeqsUpTo(FrameBytes, MaxWalkLen), header_size \in {0, 2, 4, 8}}
    \cup {[kind |-> "Dynamic", data |-> d, size |-> 4] : d \in ShortHeaderExamples}
    \cup {[kind |-> "Dynamic", data |-> d, size |-> 8] : d \in LongHeaderExamples}
    \cup {[kind |-> "Queued", data |-> d, size |-> pdu_size] :
            d \in SeqsUpTo(FrameBytes, MaxWalkLen), pdu_size \in 0..MaxPduSize}

InitWalk ==
    /\ arg \in WalkInputs
    /\ res = Unset
    /\ IteratorIdle

\* decode_dynamic_container up to its loop: the check of the frame length
EnterDynamic ==
    /\ res = Unset
    /\ arg.kind = "Dynamic"
    /\ res' = IF Len(arg.data) < arg.size THEN Walk(0, 0, TRUE, "Err")
              ELSE Walk(0, 0, FALSE, "Ok")
    /\ UNCHANGED <<arg, IteratorVars>>

\* decode_queued_container up to its loop
EnterQueued ==
    /\ res = Unset
    /\ arg.kind = "Queued"
    /\ res' = Walk(0, 0, FALSE, "Ok")
    /\ UNCHANGED <<arg, IteratorVars>>

\* one evaluation of the while loop of decode_dynamic_container
DynamicIteration ==
    /\ res # Unset
    /\ ~res.stopped
    /\ arg.kind = "Dynamic"
    /\ res' =
          IF ~(res.offset + arg.size <= Len(arg.data))
          THEN Walk(res.offset, res.iterations, TRUE, "Ok")
          ELSE LET header_bytes == Slice(arg.data, res.offset, res.offset + arg.size)
                   pdu_length == IF arg.size = 4 THEN header_bytes[3]
                                 ELSE from_be_bytes(SubSeq(header_bytes, 5, 8))
                   data_at == res.offset + arg.size
               IN IF AllZero(header_bytes)
                  THEN Walk(res.offset, res.iterations + 1, TRUE, "Ok")
                  ELSE IF arg.size # 4 /\ arg.size # 8
                  THEN Walk(res.offset, res.iterations + 1, TRUE, "Err")
                  ELSE IF data_at + pdu_length > Len(arg.data)
                  THEN Walk(data_at, res.iterations + 1, TRUE, "Ok")
                  ELSE Walk(data_at + pdu_length, res.iterations + 1, FALSE, "Ok")
    /\ UNCHANGED <<arg, IteratorVars>>

\* the loop of decode_queued_container without the test for an empty PDU
QueuedIterationWithoutEndTest ==
    /\ res # Unset
    /\ ~res.stopped
    /\ arg.kind = "Queued"
    /\ res' =
          IF ~(res.offset + arg.size <= Len(arg.data))
          THEN Walk(res.offset, res.iterations, TRUE, "Ok")
          ELSE Walk(res.offset + arg.size, res.iterations + 1, FALSE, "Ok")
    /\ UNCHANGED <<arg, IteratorVars>>

\* one evaluation of the while loop of decode_queued_container
QueuedIteration ==
    /\ res # Unset
    /\ ~res.stopped
    /\ arg.kind = "Queued"
    /\ res' =
          IF ~(res.offset + arg.size <= Len(arg.data))
          THEN Walk(res.offset, res.iterations, TRUE, "Ok")
          ELSE IF AllZero(Slice(arg.data, res.offset, res.offset + arg.size))
          THEN Walk(res.offset, res.iterations + 1, TRUE, "Ok")
          ELSE Walk(res.offset + arg.size, res.iterations + 1, FALSE, "Ok")
    /\ UNCHANGED <<arg, IteratorVars>>

NextWalk == EnterDynamic \/ EnterQueued \/ DynamicIteration \/ QueuedIteration

\* the function runs on until it returns
SpecWalk == InitWalk /\ [][NextWalk]_vars /\ WF_vars(NextWalk)

\* C30: the Dynamic walk and the Queued walk end for every payload, header size
\* and PDU size, zero sizes included: every evaluation of the loop leaves it or
\* moves the offset forward, the body is entered at most payload length plus
\* one times, and the offset stays within the payload
C30_WalksTerminate ==
    /\ [](res # Unset => /\ res.offset <= Len(arg.data)
                         /\ res.iterations <= Len(arg.data) + 1)
    /\ [][(res # Unset /\ res' # res) => (res'.stopped \/ res'.offset > res.offset)]_vars
    /\ <>(res # Unset /\ res.stopped)

\* a Dynamic walk under 4-byte headers has passed two PDUs of declared length 0
\* and left the loop at the end of the payload
C30_Witness ==
    /\ res # Unset /\ res.stopped
    /\ arg.kind = "Dynamic" /\ arg.size = 4
    /\ Len(arg.data) = 8 /\ arg.data[3] = 0 /\ arg.data[7] = 0
    /\ res.iterations = 2 /\ res.offset = 8

====
